---- MODULE Spec2Model ----
(***************************************************************************)
(* A model of the scoring and recommendation engine of the finance         *)
(* research agent: src/finance_core.py (FinancialAnalyzer),                *)
(* src/comprehensive_analyzer.py (ComprehensiveAnalyzer),                  *)
(* src/sentiment_analyzer.py (SentimentAnalyzer) and the request handler   *)
(* api_analyze of src/api/index.py.                                        *)
(*                                                                         *)
(* Numbers.  Python floats are modelled as exact fixed-point integers:     *)
(*   - a score field (FundamentalMetrics.score, ...) of the standard       *)
(*     analysis is held in tenths of a point (Pts(50) = 500);              *)
(*   - the local overall_score and confidence of generate_recommendation   *)
(*     are held in hundredths of a point, the returned, rounded fields in  *)
(*     tenths (round(x, 1));                                               *)
(*   - ratios and percentages of the metric records are held in            *)
(*     hundredths (P/E 15 = 1500, debt-to-equity 0.3 = 30, ROE 22% = 2200);*)
(*   - prices are held in cents (round(x, 2));                             *)
(*   - a score of the comprehensive analysis is held in thirds of a point  *)
(*     (the Piotroski contribution is p/9*30 = 10p/3).                     *)
(* An Optional value is <<>> for Python's None and <<v>> for a value v.    *)
(***************************************************************************)
EXTENDS Integers, Sequences, FiniteSets, TLC

VARIABLES
    pc,              \* position of the running handler
    stock_data,      \* StockData returned by get_stock_data, or None
    fundamentals,    \* FundamentalMetrics
    technicals,      \* TechnicalMetrics
    sentiment,       \* SentimentMetrics
    recommendation,  \* Recommendation returned by generate_recommendation, or None
    rec_locals,      \* the locals of generate_recommendation before rounding
    response,        \* what api_analyze answered: "none", "ok" or "error"
    financial_health,   \* FinancialHealthMetrics
    valuation_metrics,  \* ValuationMetrics
    quality_metrics,    \* QualityMetrics
    momentum_metrics,   \* MomentumMetrics
    risk_metrics,       \* RiskMetrics
    composite_score,    \* the composite score as a fraction num / den
    confidence_level,   \* ComprehensiveAnalysis.confidence_level, in hundredths
    key_insights,       \* ComprehensiveAnalysis.key_insights
    warnings,           \* ComprehensiveAnalysis.warnings
    analysis_timestamp, \* ComprehensiveAnalysis.analysis_timestamp, or None
    now,             \* the clock datetime.now() reads, in days
    providers,       \* what the providers answer to a symbol's requests
    first,           \* the records the first of two analyses returned
    call,            \* the last call made: its name and its inputs
    rsi_result,      \* what _calculate_rsi returned
    requests,        \* the analysis requests in flight: position and locals of each
    instances,       \* the attributes of the shared analyzer instances
    context_metrics, \* the OptionsMetrics, SectorMetrics and MacroContextMetrics
    cache_dir,       \* the files of config_manager.cache_dir, by cache key
    clock,           \* what time.time() reads, in seconds
    cache_call,      \* the last cache operation: its name, arguments and result
    cache_calls,     \* the number of cache operations so far
    last_set,        \* by (symbol, data_type): the data and expiry of the last
                     \* set that no invalidate or clear followed
    config,          \* ConfigManager._config: None or its recent_analyses
    config_file,     \* config.json: missing, corrupt or the recent_analyses saved
    added,           \* the symbols ever analysed, the last added first
    tui,             \* FinancialAgentTUI: the ticker input and the reactive fields
    workers,         \* the workers run_worker started: position and outcome
    terminals,       \* web_terminal.terminals: the registry, by terminal id
    sockets,         \* websocket_endpoint per connection: position, terminal_id
    tasks            \* read_terminal_output per terminal started: position,
                     \* the connection it was started on, the entries removed

result_vars == <<confidence_level, key_insights, warnings, analysis_timestamp>>

comprehensive_vars ==
    <<financial_health, valuation_metrics, quality_metrics, momentum_metrics,
      risk_metrics, composite_score, result_vars>>

call_vars == <<now, providers, first, call, rsi_result>>

\* the variables of one analysis
analysis_vars ==
    <<pc, stock_data, fundamentals, technicals, sentiment,
      recommendation, rec_locals, response, comprehensive_vars, call_vars>>

concurrent_vars == <<requests, instances>>

\* the variables of the other components
cache_vars == <<cache_dir, clock, cache_call, cache_calls, last_set>>

config_vars == <<config, config_file, added>>

tui_vars == <<tui, workers>>

terminal_vars == <<terminals, sockets, tasks>>

aux_vars ==
    <<concurrent_vars, context_metrics, cache_vars, config_vars, tui_vars,
      terminal_vars>>

vars == <<analysis_vars, aux_vars>>

----------------------------------------------------------------------------
(* Python values *)

None == <<>>
Some(v) == <<v>>
IsNone(x) == x = <<>>
Val(x) == x[1]
\* Python truthiness of an Optional[float]: None and 0 are falsy
Truthy(x) == x # <<>> /\ x[1] # 0

Max(a, b) == IF a >= b THEN a ELSE b
Min(a, b) == IF a <= b THEN a ELSE b
Abs(a) == IF a >= 0 THEN a ELSE 0 - a

\* n points as a score in tenths of a point
Pts(n) == 10 * n

\* floor(a / b) for b > 0 and any integer a
FloorDiv(a, b) == IF a >= 0 THEN a \div b ELSE 0 - ((0 - a + b - 1) \div b)

\* round(a / b) to the nearest integer, ties to the even one (Python's round)
RoundDiv(a, b) ==
    LET q == FloorDiv(a, b)
        r == a - q * b
    IN  IF 2 * r < b THEN q
        ELSE IF 2 * r > b THEN q + 1
        ELSE IF q % 2 = 0 THEN q ELSE q + 1

\* the largest r with r * r <= n, found by bisection on lo..hi
RECURSIVE ISqrtIn(_, _, _)
ISqrtIn(n, lo, hi) ==
    IF lo >= hi THEN lo
    ELSE LET mid == (lo + hi + 1) \div 2
         IN  IF mid * mid <= n THEN ISqrtIn(n, mid, hi) ELSE ISqrtIn(n, lo, mid - 1)

ISqrt(n) == ISqrtIn(n, 0, 46340)

RECURSIVE SumSeq(_)
SumSeq(s) == IF s = <<>> THEN 0 ELSE Head(s) + SumSeq(Tail(s))

----------------------------------------------------------------------------
(* Records: the dataclasses of finance_core.py with their defaults *)

FundamentalMetrics ==
    [pe_ratio |-> None, roe |-> None, debt_to_equity |-> None,
     revenue_growth |-> None, score |-> 0]

TechnicalMetrics ==
    [rsi |-> None, macd |-> None, macd_signal |-> None, sma_20 |-> None,
     sma_50 |-> None, sma_200 |-> None, trend |-> "NEUTRAL", score |-> 0]

SentimentMetrics ==
    [news_sentiment |-> None, social_sentiment |-> None, analyst_rating |-> None,
     analyst_count |-> None, analyst_score |-> None, confidence |-> 0, score |-> 0]

\* no StockData yet
NoStockData == [symbol |-> "", current_price |-> 0, change_percent |-> 0]

----------------------------------------------------------------------------
(* FinancialAnalyzer._calculate_fundamental_score *)

calculate_fundamental_score(f) ==
    LET pe == IF Truthy(f.pe_ratio)
              THEN IF Val(f.pe_ratio) < 1500 THEN 10
                   ELSE IF Val(f.pe_ratio) < 2500 THEN 5
                   ELSE IF Val(f.pe_ratio) > 4000 THEN -10 ELSE 0
              ELSE 0
        roe == IF Truthy(f.roe)
               THEN IF Val(f.roe) > 2000 THEN 15
                    ELSE IF Val(f.roe) > 1500 THEN 10
                    ELSE IF Val(f.roe) > 1000 THEN 5
                    ELSE IF Val(f.roe) < 500 THEN -10 ELSE 0
               ELSE 0
        de == IF Truthy(f.debt_to_equity)
              THEN IF Val(f.debt_to_equity) < 30 THEN 10
                   ELSE IF Val(f.debt_to_equity) < 60 THEN 5
                   ELSE IF Val(f.debt_to_equity) > 100 THEN -10 ELSE 0
              ELSE 0
        rg == IF Truthy(f.revenue_growth)
              THEN IF Val(f.revenue_growth) > 2000 THEN 15
                   ELSE IF Val(f.revenue_growth) > 1000 THEN 10
                   ELSE IF Val(f.revenue_growth) > 500 THEN 5
                   ELSE IF Val(f.revenue_growth) < 0 THEN -10 ELSE 0
              ELSE 0
    IN  Max(0, Min(Pts(100), Pts(50 + pe + roe + de + rg)))

(* FinancialAnalyzer.analyze_fundamentals.  info is the provider's mapping   *)
(* (ticker.info); info.ok is FALSE when the fetch raises.  Fractions become  *)
(* percentages only when truthy.                                             *)

Percent(x) == IF Truthy(x) THEN Some(Val(x) * 100) ELSE x

analyze_fundamentals(info) ==
    IF ~info.ok THEN FundamentalMetrics
    ELSE LET m == [pe_ratio |-> info.trailingPE,
                   roe |-> Percent(info.returnOnEquity),
                   debt_to_equity |-> info.debtToEquity,
                   revenue_growth |-> Percent(info.revenueGrowth),
                   score |-> 0]
         IN  [m EXCEPT !.score = calculate_fundamental_score(m)]

----------------------------------------------------------------------------
(* FinancialAnalyzer._determine_trend *)

determine_trend(current, sma_20, sma_50, sma_200) ==
    IF IsNone(sma_200)
    THEN IF current > sma_20 /\ sma_20 > sma_50 THEN "BULLISH"
         ELSE IF current < sma_20 /\ sma_20 < sma_50 THEN "BEARISH"
         ELSE "NEUTRAL"
    ELSE IF current > sma_20 /\ sma_20 > sma_50 /\ sma_50 > Val(sma_200)
         THEN "STRONG_BULLISH"
         ELSE IF current > sma_20 /\ sma_20 > sma_50 THEN "BULLISH"
         ELSE IF current < sma_20 /\ sma_20 < sma_50 /\ sma_50 < Val(sma_200)
         THEN "STRONG_BEARISH"
         ELSE IF current < sma_20 /\ sma_20 < sma_50 THEN "BEARISH"
         ELSE "NEUTRAL"

(* FinancialAnalyzer._calculate_technical_score *)

\* a slip: BULLISH scores like STRONG_BULLISH
trend_scores_bullish_20(trend) ==
    CASE trend = "STRONG_BULLISH" -> 20
      [] trend = "BULLISH" -> 20
      [] trend = "NEUTRAL" -> 0
      [] trend = "BEARISH" -> -15
      [] trend = "STRONG_BEARISH" -> -20
      [] OTHER -> 0

trend_scores(trend) ==
    CASE trend = "STRONG_BULLISH" -> 20
      [] trend = "BULLISH" -> 15
      [] trend = "NEUTRAL" -> 0
      [] trend = "BEARISH" -> -15
      [] trend = "STRONG_BEARISH" -> -20
      [] OTHER -> 0

\* the points _calculate_technical_score adds up before it clamps
technical_points(t, current_price) ==
    LET rsi == IF Truthy(t.rsi)
               THEN IF 4000 <= Val(t.rsi) /\ Val(t.rsi) <= 6000 THEN 10
                    ELSE IF 3000 <= Val(t.rsi) /\ Val(t.rsi) <= 4000 THEN 5
                    ELSE IF Val(t.rsi) < 3000 THEN 15
                    ELSE IF 6000 <= Val(t.rsi) /\ Val(t.rsi) <= 7000 THEN 5
                    ELSE IF Val(t.rsi) > 7000 THEN -10 ELSE 0
               ELSE 0
        macd == IF Truthy(t.macd) /\ Truthy(t.macd_signal)
                THEN IF Val(t.macd) > Val(t.macd_signal) THEN 10 ELSE -5
                ELSE 0
        ma == IF Truthy(t.sma_20) /\ Truthy(t.sma_50)
              THEN IF current_price > Val(t.sma_20) /\ Val(t.sma_20) > Val(t.sma_50)
                   THEN 10
                   ELSE IF current_price < Val(t.sma_20) /\ Val(t.sma_20) < Val(t.sma_50)
                   THEN -10 ELSE 0
              ELSE 0
    IN  50 + rsi + trend_scores(t.trend) + macd + ma

\* the score without the final max(0, min(100, score))
calculate_technical_score_unclamped(t, current_price) ==
    Pts(technical_points(t, current_price))

calculate_technical_score(t, current_price) ==
    Max(0, Min(Pts(100), Pts(technical_points(t, current_price))))

(* FinancialAnalyzer._calculate_rsi (ComprehensiveAnalyzer._calculate_rsi is *)
(* the same computation).  prices is a pandas Series of closes.  The result  *)
(* is None (kind "none"), the float nan (kind "nan") or a float, held in     *)
(* hundredths (kind "value").                                                *)

\* delta.where(delta > 0, 0) at position i: the first delta is nan, and nan
\* fails the test
rsi_gain(prices, i) ==
    IF i = 1 THEN 0 ELSE Max(prices[i] - prices[i - 1], 0)

\* -delta.where(delta < 0, 0) at position i
rsi_loss(prices, i) ==
    IF i = 1 THEN 0 ELSE Max(prices[i - 1] - prices[i], 0)

\* the sums over the window i..last of rolling(window=period)
RECURSIVE gain_sum(_, _, _)
gain_sum(prices, i, last) ==
    IF i > last THEN 0 ELSE rsi_gain(prices, i) + gain_sum(prices, i + 1, last)

RECURSIVE loss_sum(_, _, _)
loss_sum(prices, i, last) ==
    IF i > last THEN 0 ELSE rsi_loss(prices, i) + loss_sum(prices, i + 1, last)

calculate_rsi(prices, period) ==
    LET n == Len(prices)
        gain == gain_sum(prices, n - period + 1, n)
        loss == loss_sum(prices, n - period + 1, n)
    IN  IF n = 0
        THEN \* rsi.iloc[-1] raises IndexError (rsi.empty in the other copy)
             [kind |-> "none", value |-> 0]
        ELSE IF n < period
        THEN \* the rolling mean of a short window is nan
             [kind |-> "nan", value |-> 0]
        ELSE IF loss = 0
        THEN IF gain = 0
             THEN \* rs = 0 / 0 = nan
                  [kind |-> "nan", value |-> 0]
             ELSE \* rs = inf, rsi = 100 - 100 / inf
                  [kind |-> "value", value |-> 10000]
        ELSE \* 100 - 100 / (1 + gain / loss)
             [kind |-> "value", value |-> (10000 * gain) \div (gain + loss)]

(* FinancialAnalyzer.analyze_technicals.  hist is what the provider's 6mo     *)
(* history yields: its length and the indicators computed from it; hist.ok   *)
(* is FALSE when the fetch raises.  "x if x else None" drops a falsy value.   *)

IfTruthy(x) == IF Truthy(x) THEN x ELSE None

analyze_technicals(hist) ==
    IF ~hist.ok THEN TechnicalMetrics
    ELSE IF hist.len < 50 THEN TechnicalMetrics
    ELSE LET sma_200 == IF hist.len >= 200 THEN hist.sma_200 ELSE None
             m == [rsi |-> IfTruthy(hist.rsi),
                   macd |-> IfTruthy(hist.macd),
                   macd_signal |-> IfTruthy(hist.macd_signal),
                   sma_20 |-> Some(hist.sma_20),
                   sma_50 |-> Some(hist.sma_50),
                   sma_200 |-> IfTruthy(sma_200),
                   trend |-> determine_trend(hist.close, hist.sma_20,
                                             hist.sma_50, sma_200),
                   score |-> 0]
         IN  [m EXCEPT !.score = calculate_technical_score(m, hist.close)]

----------------------------------------------------------------------------
(* SentimentAnalyzer.calculate_overall_sentiment: news and social sentiment  *)
(* are in [0, 1], held in percent; the result is held in percent.            *)

calculate_overall_sentiment(news_sentiment, social_sentiment) ==
    (news_sentiment * 7 + social_sentiment * 3) \div 10

(* SentimentAnalyzer.calculate_confidence, in percent *)

calculate_confidence(data_points, news_sentiment, social_sentiment) ==
    LET quantity_factor == Min(30, data_points * 5)
        consistency_factor == (20 * (100 - Abs(news_sentiment - social_sentiment))) \div 100
    IN  Min(95, 50 + quantity_factor + consistency_factor)

(* FinancialAnalyzer.analyze_sentiment *)

\* a slip: a rating outside the table scores 0
rating_scores_no_default(rating) ==
    CASE rating = "strong_buy" -> 90
      [] rating = "buy" -> 75
      [] rating = "hold" -> 50
      [] rating = "sell" -> 25
      [] rating = "strong_sell" -> 10
      [] OTHER -> 0

rating_scores(rating) ==
    CASE rating = "strong_buy" -> 90
      [] rating = "buy" -> 75
      [] rating = "hold" -> 50
      [] rating = "sell" -> 25
      [] rating = "strong_sell" -> 10
      [] OTHER -> 50

\* analyst_rating.replace('_', ' ').title()
Title(rating) ==
    CASE rating = "strong_buy" -> "Strong Buy"
      [] rating = "buy" -> "Buy"
      [] rating = "hold" -> "Hold"
      [] rating = "sell" -> "Sell"
      [] rating = "strong_sell" -> "Strong Sell"
      [] rating = "underperform" -> "Underperform"
      [] rating = "none" -> "None"
      [] OTHER -> rating

\* min(80, analyst_count * 10) if analyst_count > 0 else 30
analyst_confidence(analyst_count) ==
    IF analyst_count > 0 THEN Pts(Min(80, analyst_count * 10)) ELSE Pts(30)

analyze_sentiment(info, provider) ==
    IF ~info.ok THEN SentimentMetrics
    ELSE LET analyst_score == rating_scores(info.recommendationKey)
             base == [SentimentMetrics EXCEPT
                         !.analyst_rating = Some(Title(info.recommendationKey)),
                         !.analyst_count = Some(info.numberOfAnalystOpinions),
                         !.analyst_score = Some(analyst_score)]
             fallback == [base EXCEPT
                             !.score = Pts(analyst_score),
                             !.confidence = analyst_confidence(info.numberOfAnalystOpinions)]
         IN  IF provider.state \in {"import_error", "no_keys", "raises"} THEN fallback
             ELSE LET overall == calculate_overall_sentiment(provider.news, provider.social)
                      adv == [base EXCEPT
                                 !.news_sentiment = IF provider.news # 0
                                                    THEN Some(Pts(provider.news)) ELSE None,
                                 !.social_sentiment = IF provider.social # 0
                                                      THEN Some(Pts(provider.social)) ELSE None,
                                 !.confidence = Pts(calculate_confidence(
                                     provider.data_points, provider.news, provider.social))]
                  IN  IF overall # 0
                      THEN [adv EXCEPT !.score = 7 * overall + 3 * analyst_score]
                      ELSE [adv EXCEPT !.score = Pts(analyst_score)]
----------------------------------------------------------------------------
(* FinancialAnalyzer.generate_recommendation *)

\* the weights 0.5, 0.3, 0.2 in tenths
fundamental_weight == 5
technical_weight == 3
sentiment_weight == 2

\* overall_score in hundredths of a point, from scores in tenths
overall_score_of(f, t, s) ==
    f.score * fundamental_weight + t.score * technical_weight
        + s.score * sentiment_weight

\* a slip: a score of exactly 80 falls to BUY
action_of_strict(overall_score) ==
    IF overall_score > 8000 THEN "STRONG_BUY"
    ELSE IF overall_score >= 6500 THEN "BUY"
    ELSE IF overall_score >= 3500 THEN "HOLD"
    ELSE IF overall_score >= 2000 THEN "SELL"
    ELSE "STRONG_SELL"

action_of(overall_score) ==
    IF overall_score >= 8000 THEN "STRONG_BUY"
    ELSE IF overall_score >= 6500 THEN "BUY"
    ELSE IF overall_score >= 3500 THEN "HOLD"
    ELSE IF overall_score >= 2000 THEN "SELL"
    ELSE "STRONG_SELL"

\* np.std(scores) * 2 in hundredths of a point, rounded towards zero: with
\* n = 3 * sum(x^2) - sum(x)^2 of the scores in tenths, std = sqrt(n) / 30
std_times_2(scores) ==
    LET sum == SumSeq(scores)
        squares == SumSeq([i \in 1..Len(scores) |-> scores[i] * scores[i]])
        n == Len(scores) * squares - sum * sum
    IN  ISqrt(400 * n) \div Len(scores)

\* a slip: the floor of 20 is left out
confidence_of_no_floor(f, t, s) ==
    Min(9500, 10000 - std_times_2(<<f.score, t.score, s.score>>))

\* max(20, min(95, 100 - std * 2)), in hundredths of a point
confidence_of(f, t, s) ==
    Max(2000, Min(9500, 10000 - std_times_2(<<f.score, t.score, s.score>>)))

\* a slip: the technical string is appended first
reasoning_of_technicals_first(f, t, s) ==
    (IF t.trend \in {"BULLISH", "STRONG_BULLISH"} THEN <<"Bullish technical trend">>
     ELSE IF t.trend \in {"BEARISH", "STRONG_BEARISH"}
     THEN <<"Bearish technical trend">> ELSE <<>>)
    \o (IF f.score >= Pts(70) THEN <<"Strong fundamentals">>
        ELSE IF f.score <= Pts(30) THEN <<"Weak fundamentals">> ELSE <<>>)
    \o (IF s.score >= Pts(70) THEN <<"Positive market sentiment">>
        ELSE IF s.score <= Pts(30) THEN <<"Negative market sentiment">> ELSE <<>>)

\* a slip: the reasoning list outlives the call and grows with every run
reasoning_of_kept(f, t, s) ==
    recommendation.reasoning
    \o (IF f.score >= Pts(70) THEN <<"Strong fundamentals">>
        ELSE IF f.score <= Pts(30) THEN <<"Weak fundamentals">> ELSE <<>>)
    \o (IF t.trend \in {"BULLISH", "STRONG_BULLISH"} THEN <<"Bullish technical trend">>
        ELSE IF t.trend \in {"BEARISH", "STRONG_BEARISH"}
        THEN <<"Bearish technical trend">> ELSE <<>>)
    \o (IF s.score >= Pts(70) THEN <<"Positive market sentiment">>
        ELSE IF s.score <= Pts(30) THEN <<"Negative market sentiment">> ELSE <<>>)

reasoning_of(f, t, s) ==
    (IF f.score >= Pts(70) THEN <<"Strong fundamentals">>
     ELSE IF f.score <= Pts(30) THEN <<"Weak fundamentals">> ELSE <<>>)
    \o (IF t.trend \in {"BULLISH", "STRONG_BULLISH"} THEN <<"Bullish technical trend">>
        ELSE IF t.trend \in {"BEARISH", "STRONG_BEARISH"}
        THEN <<"Bearish technical trend">> ELSE <<>>)
    \o (IF s.score >= Pts(70) THEN <<"Positive market sentiment">>
        ELSE IF s.score <= Pts(30) THEN <<"Negative market sentiment">> ELSE <<>>)

\* price_target before rounding, as a number of 1/50000 cent, or None
price_target_of(action, current_price, overall_score) ==
    IF action \in {"BUY", "STRONG_BUY"}
    THEN Some(current_price * (50000 + (overall_score - 5000)))
    ELSE IF action \in {"SELL", "STRONG_SELL"}
    THEN Some(current_price * (50000 - (5000 - overall_score)))
    ELSE None

\* a slip: the MEDIUM band starts at 70
risk_level_of_70(confidence) ==
    IF confidence > 8000 THEN "LOW"
    ELSE IF confidence > 7000 THEN "MEDIUM" ELSE "HIGH"

risk_level_of(confidence) ==
    IF confidence > 8000 THEN "LOW"
    ELSE IF confidence > 6000 THEN "MEDIUM" ELSE "HIGH"

\* the locals of the call; quote is the 1d history fetched for the price
\* target (quote.ok is FALSE when the fetch raises or the history is empty)
recommendation_locals(f, t, s, quote) ==
    LET overall_score == overall_score_of(f, t, s)
        action == action_of(overall_score)
        confidence == confidence_of(f, t, s)
    IN  [overall_score |-> overall_score,
         action |-> action,
         confidence |-> confidence,
         current_price |-> quote.close,
         price_target |-> price_target_of(action, quote.close, overall_score)]

\* the Recommendation built from the locals
Recommendation(l, f, t, s) ==
    [action |-> l.action,
     confidence |-> RoundDiv(l.confidence, 10),
     price_target |-> IF Truthy(l.price_target)
                      THEN Some(RoundDiv(Val(l.price_target), 50000)) ELSE None,
     risk_level |-> risk_level_of(l.confidence),
     reasoning |-> reasoning_of(f, t, s),
     overall_score |-> RoundDiv(l.overall_score, 10)]

NoLocals ==
    [overall_score |-> 0, action |-> "", confidence |-> 0, current_price |-> 0,
     price_target |-> None]

NoRecommendation ==
    [action |-> "", confidence |-> 0, price_target |-> None, risk_level |-> "",
     reasoning |-> <<>>, overall_score |-> 0]

\* the call as a step: it returns (pc' = ret) or raises (pc' = "raised")
generate_recommendation(quote, ret) ==
    IF ~quote.ok
    THEN /\ pc' = "raised"
         /\ rec_locals' = NoLocals
         /\ recommendation' = NoRecommendation
    ELSE LET l == recommendation_locals(fundamentals, technicals, sentiment, quote)
         IN  /\ pc' = ret
             /\ rec_locals' = l
             /\ recommendation' = Recommendation(l, fundamentals, technicals, sentiment)
----------------------------------------------------------------------------
(* ComprehensiveAnalyzer (src/comprehensive_analyzer.py): the metric records *)
(* with their defaults and the scoring methods.  Scores are in thirds of a   *)
(* point, metric values in hundredths.                                       *)

\* n points as a score in thirds of a point
CPts(n) == 3 * n

FinancialHealthMetrics ==
    [piotroski_score |-> None, altman_z_score |-> None, score |-> 0]

MomentumMetrics ==
    [price_momentum_1m |-> None, relative_strength_index_long |-> None,
     score |-> 0]

RiskMetrics ==
    [beta |-> None, sharpe_ratio |-> None, max_drawdown |-> None, risk_score |-> 0]

ValuationMetrics ==
    [dcf_estimate |-> None, price_to_fcf |-> None, valuation_score |-> 0]

QualityMetrics ==
    [cash_flow_to_earnings |-> None, accounting_red_flags |-> <<>>, score |-> 0]

NoComprehensive ==
    /\ financial_health = FinancialHealthMetrics
    /\ valuation_metrics = ValuationMetrics
    /\ quality_metrics = QualityMetrics
    /\ momentum_metrics = MomentumMetrics
    /\ risk_metrics = RiskMetrics
    /\ composite_score = [num |-> 0, den |-> 1]
    /\ confidence_level = 0
    /\ key_insights = <<>>
    /\ warnings = <<>>
    /\ analysis_timestamp = None

\* nothing called yet
NoCall == [op |-> "none"]
NoProviders == [symbol |-> ""]
NoFirst == [response |-> "none"]
NoRsi == [kind |-> "none", value |-> 0]

NoCalls ==
    /\ now = 0
    /\ providers = NoProviders
    /\ first = NoFirst
    /\ call = NoCall
    /\ rsi_result = NoRsi

----------------------------------------------------------------------------
(* The module-level analyzer instances of src/api/index.py, shared by every  *)
(* request, and the requests that run on them.                               *)

\* the attributes FinancialAnalyzer.__init__ and ComprehensiveAnalyzer.__init__
\* set, in hundredths (risk_free_rate in thousandths)
Instances ==
    [analyzer |->
         [fundamental_weights |->
              [pe_ratio |-> 15, roe |-> 20, debt_to_equity |-> 15,
               revenue_growth |-> 15, profit_margin |-> 15,
               current_ratio |-> 10, pb_ratio |-> 10],
          technical_weights |->
              [trend |-> 30, rsi |-> 20, macd |-> 25, moving_averages |-> 25]],
     comprehensive_analyzer |->
         [risk_free_rate |-> 45,
          composite_weights |->
              [fundamental |-> 25, technical |-> 15, financial_health |-> 20,
               valuation |-> 15, quality |-> 10, momentum |-> 10, risk |-> 5]]]

\* a slip: the analyzer keeps the record it computed last
instances_after_keeping(inst, method, result) ==
    [inst EXCEPT !.analyzer =
         [fundamental_weights |-> inst.analyzer.fundamental_weights,
          technical_weights |-> inst.analyzer.technical_weights,
          last |-> <<method, result>>]]

\* the instances after a method returned result: no method of the analyzers
\* assigns to an attribute of self
instances_after(inst, method, result) == inst

\* no request in flight
NoConcurrent ==
    /\ requests = <<>>
    /\ instances = Instances

\* OptionsMetrics(), SectorMetrics() and MacroContextMetrics()
OptionsMetrics ==
    [put_call_ratio |-> None, implied_volatility |-> None,
     option_volume |-> None, score |-> 0]

SectorMetrics ==
    [sector |-> "", industry |-> "", market_correlation |-> None, score |-> 0]

MacroContextMetrics ==
    [interest_rate_sensitivity |-> None, inflation_impact |-> None,
     economic_cycle_position |-> None, score |-> 0]

NoContext ==
    context_metrics = [options_metrics |-> OptionsMetrics,
                       sector_metrics |-> SectorMetrics,
                       macro_context |-> MacroContextMetrics]

\* the symbols and data types the cache is used with: one of the types of
\* cache_durations and one that is not in it
CacheSymbols == {"AAPL", "MSFT"}
CacheDataTypes == {"stock_data", "comprehensive"}

\* CacheManager._get_cache_key
get_cache_key(symbol, data_type) == symbol \o "_" \o data_type

CacheKeys == {get_cache_key(s, t) : s \in CacheSymbols, t \in CacheDataTypes}

\* cache_file.exists() is false
NoFile == [kind |-> "missing"]

\* an empty cache directory at time 0
NoCache ==
    /\ cache_dir = [k \in CacheKeys |-> NoFile]
    /\ clock = 0
    /\ cache_call = [op |-> "none"]
    /\ cache_calls = 0
    /\ last_set = [s \in CacheSymbols |-> [t \in CacheDataTypes |-> None]]

\* a ConfigManager that has loaded nothing, and no config.json
NoConfig ==
    /\ config = None
    /\ config_file = [kind |-> "missing"]
    /\ added = <<>>

\* the Textual app as mounted: an empty input, no analysis, no worker
NoTui ==
    /\ tui = [input |-> "", analysis_mode |-> "standard", current_symbol |-> "",
              is_analyzing |-> FALSE, analysis_complete |-> FALSE]
    /\ workers = <<>>

\* the web terminal server with no connection and an empty registry
NoTerminals ==
    /\ terminals = <<>>
    /\ sockets = <<>>
    /\ tasks = <<>>

\* the other components at rest
NoAux ==
    /\ NoConcurrent
    /\ NoContext
    /\ NoCache
    /\ NoConfig
    /\ NoTui
    /\ NoTerminals

----------------------------------------------------------------------------
\* a / b < n / 100 and a / b > n / 100 for b # 0
RatioBelow(a, b, n) == IF b > 0 THEN a * 100 < n * b ELSE a * 100 > n * b
RatioAbove(a, b, n) == IF b > 0 THEN a * 100 > n * b ELSE a * 100 < n * b

\* _calculate_health_score: (piotroski / 9) * 30 is 10 * piotroski thirds
calculate_health_score(health) ==
    LET p == IF Truthy(health.piotroski_score)
             THEN 10 * Val(health.piotroski_score) ELSE 0
        z == IF Truthy(health.altman_z_score)
             THEN IF Val(health.altman_z_score) > 300 THEN CPts(20)
                  ELSE IF Val(health.altman_z_score) > 180 THEN CPts(10)
                  ELSE CPts(-20)
             ELSE 0
    IN  Max(0, Min(CPts(100), CPts(50) + p + z))

\* _calculate_momentum_score
calculate_momentum_score(momentum) ==
    LET m == IF Truthy(momentum.price_momentum_1m)
             THEN IF Val(momentum.price_momentum_1m) > 1000 THEN 20
                  ELSE IF Val(momentum.price_momentum_1m) > 0 THEN 10
                  ELSE IF Val(momentum.price_momentum_1m) < -1000 THEN -20
                  ELSE -10
             ELSE 0
    IN  Max(0, Min(CPts(100), CPts(50 + m)))

\* a slip: a negative Sharpe ratio and a deep drawdown cost 25 points each
calculate_risk_score_harsh(risk) ==
    LET sh == IF Truthy(risk.sharpe_ratio) /\ Val(risk.sharpe_ratio) < 0
              THEN -25 ELSE 0
        dd == IF Truthy(risk.max_drawdown) /\ Val(risk.max_drawdown) < -4000
              THEN -25 ELSE 0
    IN  Max(0, Min(CPts(100), CPts(50 + sh + dd)))

\* _calculate_risk_score
calculate_risk_score(risk) ==
    LET sh == IF Truthy(risk.sharpe_ratio)
              THEN IF Val(risk.sharpe_ratio) > 100 THEN 25
                   ELSE IF Val(risk.sharpe_ratio) > 50 THEN 15
                   ELSE IF Val(risk.sharpe_ratio) < 0 THEN -20 ELSE 0
              ELSE 0
        dd == IF Truthy(risk.max_drawdown)
              THEN IF Val(risk.max_drawdown) > -1000 THEN 15
                   ELSE IF Val(risk.max_drawdown) > -2000 THEN 5
                   ELSE IF Val(risk.max_drawdown) < -4000 THEN -25 ELSE 0
              ELSE 0
    IN  Max(0, Min(CPts(100), CPts(50 + sh + dd)))

\* _calculate_valuation_score: ratio = current_price / dcf_estimate
calculate_valuation_score(valuation, current_price) ==
    LET dcf == IF Truthy(valuation.dcf_estimate) /\ current_price # 0
               THEN LET d == Val(valuation.dcf_estimate)
                    IN  IF RatioBelow(current_price, d, 80) THEN 25
                        ELSE IF RatioBelow(current_price, d, 100) THEN 15
                        ELSE IF RatioAbove(current_price, d, 150) THEN -25
                        ELSE IF RatioAbove(current_price, d, 120) THEN -15 ELSE 0
               ELSE 0
        fcf == IF Truthy(valuation.price_to_fcf)
               THEN IF Val(valuation.price_to_fcf) < 1500 THEN 15
                    ELSE IF Val(valuation.price_to_fcf) > 3000 THEN -15 ELSE 0
               ELSE 0
    IN  Max(0, Min(CPts(100), CPts(50 + dcf + fcf)))

\* _calculate_quality_score
calculate_quality_score(quality) ==
    LET cf == IF Truthy(quality.cash_flow_to_earnings)
              THEN IF Val(quality.cash_flow_to_earnings) > 120 THEN 20
                   ELSE IF Val(quality.cash_flow_to_earnings) > 80 THEN 10
                   ELSE -20
              ELSE 0
    IN  Max(0, Min(CPts(100),
                   CPts(70 + cf - Len(quality.accounting_red_flags) * 10)))

\* self.composite_weights.get(component, 0.1), in hundredths
composite_weights(component) ==
    CASE component = "fundamental" -> 25
      [] component = "technical" -> 15
      [] component = "financial_health" -> 20
      [] component = "valuation" -> 15
      [] component = "quality" -> 10
      [] component = "momentum" -> 10
      [] component = "risk" -> 5
      [] OTHER -> 10

\* the loop with every category counted, whatever its score
RECURSIVE composite_loop_all(_, _, _)
composite_loop_all(scores, i, acc) ==
    IF i > Len(scores) THEN acc
    ELSE composite_loop_all(scores, i + 1,
             <<acc[1] + scores[i][2] * composite_weights(scores[i][1]),
               acc[2] + composite_weights(scores[i][1])>>)

\* the loop of _calculate_composite_score over scores.items(), from item i:
\* <<weighted_sum, total_weight>>
RECURSIVE composite_loop(_, _, _)
composite_loop(scores, i, acc) ==
    IF i > Len(scores) THEN acc
    ELSE LET component == scores[i][1]
             score == scores[i][2]
         IN  IF score > 0
             THEN composite_loop(scores, i + 1,
                      <<acc[1] + score * composite_weights(component),
                        acc[2] + composite_weights(component)>>)
             ELSE composite_loop(scores, i + 1, acc)

\* _calculate_composite_score: weighted_sum / total_weight, or 50
calculate_composite_score(health, valuation, quality, momentum, risk) ==
    LET scores == <<<<"financial_health", health.score>>,
                    <<"valuation", valuation.valuation_score>>,
                    <<"quality", quality.score>>,
                    <<"momentum", momentum.score>>,
                    <<"risk", risk.risk_score>>>>
        sums == composite_loop(scores, 1, <<0, 0>>)
    IN  IF sums[2] > 0 THEN [num |-> sums[1], den |-> sums[2]]
        ELSE [num |-> CPts(50), den |-> 1]

\* _calculate_confidence, in hundredths (the options metrics are not read)
calculate_confidence_level(health, quality) ==
    Min(95, 70 + (IF Truthy(health.piotroski_score) THEN 10 ELSE 0)
               + (IF Truthy(health.altman_z_score) THEN 10 ELSE 0)
               + (IF Truthy(quality.cash_flow_to_earnings) THEN 10 ELSE 0))

\* one insight or warning string: its category, its fixed text and the
\* number formatted into it (0 when there is none)
Message(category, text, value) ==
    [category |-> category, text |-> text, value |-> value]

\* current_price = 100, the placeholder of _generate_key_insights, in cents
insight_price == 10000

\* a slip: the strong-health insight needs a score above 7
health_insight_above_7(health) ==
    IF Truthy(health.piotroski_score) /\ Val(health.piotroski_score) > 7
    THEN <<Message("health", "Strong financial health",
                   Val(health.piotroski_score))>>
    ELSE IF Truthy(health.piotroski_score) /\ Val(health.piotroski_score) <= 3
    THEN <<Message("health", "Weak financial health",
                   Val(health.piotroski_score))>>
    ELSE <<>>

\* the financial health insights
health_insight(health) ==
    IF Truthy(health.piotroski_score) /\ Val(health.piotroski_score) >= 7
    THEN <<Message("health", "Strong financial health",
                   Val(health.piotroski_score))>>
    ELSE IF Truthy(health.piotroski_score) /\ Val(health.piotroski_score) <= 3
    THEN <<Message("health", "Weak financial health",
                   Val(health.piotroski_score))>>
    ELSE <<>>

\* the valuation insights
valuation_insight(valuation) ==
    IF Truthy(valuation.dcf_estimate)
    THEN IF Val(valuation.dcf_estimate) * 10 > insight_price * 12
         THEN <<Message("valuation", "Trading below estimated intrinsic value", 0)>>
         ELSE IF Val(valuation.dcf_estimate) * 10 < insight_price * 8
         THEN <<Message("valuation", "Trading above estimated intrinsic value", 0)>>
         ELSE <<>>
    ELSE <<>>

\* the quality insights
quality_insight(quality) ==
    IF Truthy(quality.cash_flow_to_earnings)
       /\ Val(quality.cash_flow_to_earnings) > 120
    THEN <<Message("quality",
                   "Strong cash flow generation relative to earnings", 0)>>
    ELSE <<>>

\* the risk insights
risk_insight(risk) ==
    IF Truthy(risk.max_drawdown) /\ Val(risk.max_drawdown) > -1000
    THEN <<Message("risk", "Low historical volatility and drawdown", 0)>>
    ELSE IF Truthy(risk.max_drawdown) /\ Val(risk.max_drawdown) < -3000
    THEN <<Message("risk",
                   "High historical volatility with significant drawdowns", 0)>>
    ELSE <<>>

\* _generate_key_insights
generate_key_insights(health, valuation, quality, momentum, risk) ==
    LET insights == health_insight(health) \o valuation_insight(valuation)
                    \o quality_insight(quality) \o risk_insight(risk)
    IN  SubSeq(insights, 1, Min(5, Len(insights)))

\* _generate_warnings
generate_warnings(health, quality, risk) ==
    (IF Truthy(health.altman_z_score) /\ Val(health.altman_z_score) < 180
     THEN <<Message("health", "Elevated bankruptcy risk (low Altman Z-score)", 0)>>
     ELSE <<>>)
    \o (IF quality.accounting_red_flags # <<>>
        THEN <<Message("quality", "accounting red flags detected",
                       Len(quality.accounting_red_flags))>>
        ELSE <<>>)
    \o (IF Truthy(risk.max_drawdown) /\ Val(risk.max_drawdown) < -4000
        THEN <<Message("risk", "Very high historical volatility and drawdowns", 0)>>
        ELSE <<>>)

(* The extractors.  Each reads the provider, builds its record and scores   *)
(* it; a raising provider (ok = FALSE) gives the default record.             *)

\* _analyze_financial_health; src carries what _calculate_piotroski_score and
\* _calculate_altman_z_score return
analyze_financial_health(src) ==
    IF ~src.ok THEN FinancialHealthMetrics
    ELSE LET m == [piotroski_score |-> src.piotroski_score,
                   altman_z_score |-> src.altman_z_score,
                   score |-> 0]
         IN  [m EXCEPT !.score = calculate_health_score(m)]

\* _analyze_momentum; hist is the 1y history: its length and the change of
\* the close over the last 22 sessions
\* a slip: the long RSI is computed from any history
long_rsi_always(hist) == Some(hist.rsi_200)

\* the 200-day RSI of _analyze_momentum: hist.rsi_200 is what
\* _calculate_rsi(close, 200) returns
long_rsi(hist) ==
    IF hist.len >= 200 THEN Some(hist.rsi_200) ELSE None

analyze_momentum(hist) ==
    IF ~hist.ok THEN MomentumMetrics
    ELSE IF hist.len < 30 THEN MomentumMetrics
    ELSE LET m == [price_momentum_1m |-> IF hist.len >= 22
                                          THEN Some(hist.momentum_1m) ELSE None,
                   relative_strength_index_long |-> long_rsi(hist),
                   score |-> 0]
         IN  [m EXCEPT !.score = calculate_momentum_score(m)]

\* the beta of _analyze_risk, a fraction: hist.aligned is the number of rows
\* of the date-aligned stock and SPY returns, hist.covariance and
\* hist.spy_variance what pandas computes from them; when the SPY fetch or
\* the computation raises (spy_ok = FALSE) beta is info.get('beta')
risk_beta(hist) ==
    IF ~hist.spy_ok
    THEN IF hist.info_beta = None THEN None
         ELSE Some([num |-> Val(hist.info_beta), den |-> 100])
    ELSE IF hist.aligned > 50
    THEN IF hist.spy_variance > 0
         THEN Some([num |-> hist.covariance, den |-> hist.spy_variance])
         ELSE None
    ELSE None

\* _analyze_risk; hist is the 2y history: its length, the Sharpe ratio (None
\* when the volatility is 0) and the largest drawdown
analyze_risk(hist) ==
    IF ~hist.ok THEN RiskMetrics
    ELSE IF hist.len < 50 THEN RiskMetrics
    ELSE LET m == [beta |-> risk_beta(hist),
                   sharpe_ratio |-> hist.sharpe_ratio,
                   max_drawdown |-> Some(hist.max_drawdown),
                   risk_score |-> 0]
         IN  [m EXCEPT !.risk_score = calculate_risk_score(m)]

\* _analyze_valuation; info carries currentPrice and what the DCF and
\* price-to-FCF computations yield
analyze_valuation(info) ==
    IF ~info.ok THEN ValuationMetrics
    ELSE IF ~Truthy(info.currentPrice) THEN ValuationMetrics
    ELSE LET m == [dcf_estimate |-> info.dcf_estimate,
                   price_to_fcf |-> info.price_to_fcf,
                   valuation_score |-> 0]
         IN  [m EXCEPT !.valuation_score =
                           calculate_valuation_score(m, Val(info.currentPrice))]

\* the red flags _analyze_quality collects
red_flags_of(src) ==
    (IF src.cf_to_earnings # None /\ Val(src.cf_to_earnings) < 80
     THEN <<"Low cash flow relative to earnings">> ELSE <<>>)
    \o (IF Truthy(src.returnOnAssets) /\ Val(src.returnOnAssets) < 2
        THEN <<"Low return on assets">> ELSE <<>>)
    \o (IF Truthy(src.debtToEquity) /\ Val(src.debtToEquity) > 20000
        THEN <<"Very high debt-to-equity ratio">> ELSE <<>>)

\* _analyze_quality; src.cf_to_earnings is operating cash flow / net income,
\* None when net income is 0 or a statement is missing
analyze_quality(src) ==
    IF ~src.ok THEN QualityMetrics
    ELSE LET m == [cash_flow_to_earnings |-> src.cf_to_earnings,
                   accounting_red_flags |-> red_flags_of(src),
                   score |-> 0]
         IN  [m EXCEPT !.score = calculate_quality_score(m)]

----------------------------------------------------------------------------
(* What the providers can answer *)

Opt(S) == {None} \cup {Some(v) : v \in S}

\* ticker.info as analyze_fundamentals reads it
FundInfos ==
    [ok : {TRUE},
     trailingPE : Opt({0, 1200, 2000, 3000, 4500}),
     returnOnEquity : Opt({0, 3, 7, 12, 17, 22}),
     debtToEquity : Opt({0, 20, 50, 80, 150}),
     revenueGrowth : Opt({0, -5, 3, 7, 12, 25})]

FundInfoRaises ==
    [ok |-> FALSE, trailingPE |-> None, returnOnEquity |-> None,
     debtToEquity |-> None, revenueGrowth |-> None]

\* the 6mo history as analyze_technicals reads it: its length, the last close
\* and the indicators pandas computes from it
TechHists ==
    {h \in [ok : {TRUE},
            len : {30, 49, 50, 126, 250},
            close : {9000, 10000, 11000},
            sma_20 : {9000, 10000, 11000},
            sma_50 : {9000, 10000, 11000},
            sma_200 : Opt({8000, 12000}),
            rsi : Opt({0, 2500, 3500, 4000, 5000, 6500, 7500}),
            macd : Opt({-30, 0, 50}),
            macd_signal : Opt({0, 20})] :
        /\ (h.len < 200 => h.sma_200 = None)
        /\ (h.len >= 200 => h.sma_200 # None)
        /\ (h.len < 50 => /\ h.close = 10000 /\ h.sma_20 = 10000 /\ h.sma_50 = 10000
                          /\ h.rsi = None /\ h.macd = None /\ h.macd_signal = None)
        /\ (h.macd = None <=> h.macd_signal = None)}

TechHistRaises ==
    [ok |-> FALSE, len |-> 0, close |-> 0, sma_20 |-> 0, sma_50 |-> 0,
     sma_200 |-> None, rsi |-> None, macd |-> None, macd_signal |-> None]

\* ticker.info as analyze_sentiment reads it
AnalystInfos ==
    [ok : {TRUE},
     recommendationKey : {"strong_buy", "buy", "hold", "sell", "strong_sell",
                          "none", "underperform"},
     numberOfAnalystOpinions : {0, 3, 12}]

AnalystInfoRaises ==
    [ok |-> FALSE, recommendationKey |-> "none", numberOfAnalystOpinions |-> 0]

\* the sentiment provider: missing module, no API keys, a raising call, or an
\* analysis with news and social sentiment in percent
SentimentLevels == {0, 10, 20, 30, 40, 50, 60, 70, 80, 90, 100}

SentimentProviders ==
    [state : {"import_error", "no_keys", "raises"}, news : {50}, social : {50},
     data_points : {0}]
    \cup [state : {"ok"}, news : SentimentLevels, social : SentimentLevels,
          data_points : {0, 20}]

\* the 1d history generate_recommendation fetches for the price target
Quotes == [ok : {TRUE}, close : {0, 999, 15000}] \cup [ok : {FALSE}, close : {0}]

----------------------------------------------------------------------------
(* generate_recommendation applied to the records the analyses can return:   *)
(* one record for every score (and trend) an analysis can produce.           *)

FundamentalResults ==
    {analyze_fundamentals(i) : i \in FundInfos \cup {FundInfoRaises}}

TechnicalResults ==
    {analyze_technicals(h) : h \in TechHists \cup {TechHistRaises}}

SentimentResults ==
    {analyze_sentiment(i, p) :
        i \in AnalystInfos \cup {AnalystInfoRaises},
        p \in {q \in SentimentProviders : q.social \in {0, 40, 100}}}

FundamentalCases ==
    {CHOOSE r \in FundamentalResults : r.score = x :
        x \in {r.score : r \in FundamentalResults}}

TechnicalCases ==
    {CHOOSE r \in TechnicalResults : r.score = x[1] /\ r.trend = x[2] :
        x \in {<<r.score, r.trend>> : r \in TechnicalResults}}

SentimentCases ==
    {CHOOSE r \in SentimentResults : r.score = x :
        x \in {r.score : r \in SentimentResults}}

InitRec ==
    /\ pc = "recommend"
    /\ stock_data = NoStockData
    /\ fundamentals \in FundamentalCases
    /\ technicals \in TechnicalCases
    /\ sentiment \in SentimentCases
    /\ recommendation = NoRecommendation
    /\ rec_locals = NoLocals
    /\ response = "none"
    /\ NoComprehensive
    /\ NoCalls
    /\ NoAux

Recommend ==
    /\ pc = "recommend"
    /\ \E quote \in Quotes : generate_recommendation(quote, "returned")
    /\ UNCHANGED <<stock_data, fundamentals, technicals, sentiment, response>>
    /\ UNCHANGED comprehensive_vars
    /\ UNCHANGED call_vars
    /\ UNCHANGED aux_vars

NextRec == Recommend

SpecRec == InitRec /\ [][NextRec]_vars

----------------------------------------------------------------------------
(* What the providers can answer to the comprehensive extractors *)

\* Piotroski: 1 to 7 (the code adds at most 7 points), or None on an exception
HealthSources ==
    [ok : {TRUE}, piotroski_score : Opt({1, 2, 3, 4, 5, 6, 7}),
     altman_z_score : Opt({-50, 0, 150, 180, 250, 300, 350})]
    \cup [ok : {FALSE}, piotroski_score : {None}, altman_z_score : {None}]

MomentumHists ==
    [ok : {TRUE}, len : {20, 60, 199, 200},
     momentum_1m : {-1500, -1000, -500, 0, 500, 1000, 1500},
     rsi_200 : {5500}]
    \cup [ok : {FALSE}, len : {0}, momentum_1m : {0}, rsi_200 : {0}]

\* the 2y history, the SPY history aligned with it and ticker.info's beta
\* (in hundredths), which is read only when the SPY branch raises
RiskHists ==
    {h \in [ok : {TRUE}, len : {30, 49, 50, 300},
            sharpe_ratio : Opt({-50, 0, 30, 50, 80, 100, 150}),
            max_drawdown : {-5000, -4000, -3000, -2000, -1500, -1000, -500, 0},
            spy_ok : BOOLEAN,
            aligned : {0, 29, 49, 50, 51},
            covariance : {-2, 0, 3},
            spy_variance : {0, 2},
            info_beta : Opt({110})] :
        /\ h.aligned < h.len
        /\ (h.spy_ok => h.info_beta = None)
        /\ (~h.spy_ok => h.aligned = 0 /\ h.covariance = 0 /\ h.spy_variance = 0)
        /\ (h.spy_variance = 0 => h.covariance = 0)}
    \cup [ok : {FALSE}, len : {0}, sharpe_ratio : {None}, max_drawdown : {0},
          spy_ok : {FALSE}, aligned : {0}, covariance : {0}, spy_variance : {0},
          info_beta : {None}]

ValuationInfos ==
    [ok : {TRUE}, currentPrice : Opt({0, 12000}),
     dcf_estimate : Opt({6000, 8000, 9000, 10000, 11000, 12000, 13000, 15000,
                         20000}),
     price_to_fcf : Opt({1000, 1500, 2000, 3000, 4000})]
    \cup [ok : {FALSE}, currentPrice : {None}, dcf_estimate : {None},
          price_to_fcf : {None}]

QualitySources ==
    [ok : {TRUE}, cf_to_earnings : Opt({-50, 0, 50, 80, 100, 120, 150}),
     returnOnAssets : Opt({0, 1, 2, 5}),
     debtToEquity : Opt({0, 15000, 20000, 25000})]
    \cup [ok : {FALSE}, cf_to_earnings : {None}, returnOnAssets : {None},
          debtToEquity : {None}]

\* records the extractors can return to perform_comprehensive_analysis:
\* every branch of the insight, warning and confidence rules has a record
HealthCases ==
    {analyze_financial_health(s) :
        s \in {h \in HealthSources :
                  /\ h.piotroski_score \in {None, Some(3), Some(4), Some(7)}
                  /\ h.altman_z_score \in {None, Some(0), Some(150), Some(180),
                                            Some(350)}}}

\* one record for every momentum score
MomentumCases ==
    LET results == {analyze_momentum(h) : h \in MomentumHists}
    IN  {CHOOSE r \in results : r.score = x : x \in {r.score : r \in results}}

RiskCases ==
    {analyze_risk(h) :
        h \in {k \in RiskHists :
                  /\ k.sharpe_ratio \in {None, Some(150)}
                  /\ k.max_drawdown \in {-5000, -4000, -3000, -500, 0}
                  /\ (k.ok => k.spy_ok /\ k.aligned = 29 /\ k.covariance = 3)}}

ValuationCases ==
    {analyze_valuation(i) :
        i \in {k \in ValuationInfos :
                  /\ k.dcf_estimate \in {None, Some(6000), Some(8000), Some(12000),
                                          Some(20000)}
                  /\ k.price_to_fcf \in {None, Some(1000)}}}

QualityCases ==
    {analyze_quality(q) :
        q \in {k \in QualitySources :
                  /\ k.cf_to_earnings \in {None, Some(0), Some(120), Some(150)}
                  /\ k.returnOnAssets = None
                  /\ k.debtToEquity \in {None, Some(25000)}}}

----------------------------------------------------------------------------
(* One call of one analysis on any provider answer: the three standard       *)
(* analyses, the five comprehensive extractors, and the extraction and       *)
(* composite steps of perform_comprehensive_analysis.                        *)

InitUnit ==
    /\ pc = "idle"
    /\ stock_data = NoStockData
    /\ fundamentals = FundamentalMetrics
    /\ technicals = TechnicalMetrics
    /\ sentiment = SentimentMetrics
    /\ recommendation = NoRecommendation
    /\ rec_locals = NoLocals
    /\ response = "none"
    /\ NoComprehensive
    /\ NoCalls
    /\ NoAux

UnitFundamentals ==
    /\ pc = "idle"
    /\ \E info \in FundInfos \cup {FundInfoRaises} :
           /\ fundamentals' = analyze_fundamentals(info)
           /\ call' = [op |-> "analyze_fundamentals", info |-> info]
    /\ pc' = "fundamentals"
    /\ UNCHANGED <<stock_data, technicals, sentiment, recommendation,
                   rec_locals, response, comprehensive_vars>>
    /\ UNCHANGED <<now, providers, first, rsi_result>>
    /\ UNCHANGED aux_vars

UnitTechnicals ==
    /\ pc = "idle"
    /\ \E hist \in TechHists \cup {TechHistRaises} :
           /\ technicals' = analyze_technicals(hist)
           /\ call' = [op |-> "analyze_technicals", hist |-> hist]
    /\ pc' = "technicals"
    /\ UNCHANGED <<stock_data, fundamentals, sentiment, recommendation,
                   rec_locals, response, comprehensive_vars>>
    /\ UNCHANGED <<now, providers, first, rsi_result>>
    /\ UNCHANGED aux_vars

UnitSentiment ==
    /\ pc = "idle"
    /\ \E info \in AnalystInfos \cup {AnalystInfoRaises},
          provider \in SentimentProviders :
           /\ sentiment' = analyze_sentiment(info, provider)
           /\ call' = [op |-> "analyze_sentiment", info |-> info,
                       provider |-> provider]
    /\ pc' = "sentiment"
    /\ UNCHANGED <<stock_data, fundamentals, technicals, recommendation,
                   rec_locals, response, comprehensive_vars>>
    /\ UNCHANGED <<now, providers, first, rsi_result>>
    /\ UNCHANGED aux_vars

UnitFinancialHealth ==
    /\ pc = "idle"
    /\ \E src \in HealthSources :
           /\ financial_health' = analyze_financial_health(src)
           /\ call' = [op |-> "_analyze_financial_health", src |-> src]
    /\ pc' = "financial_health"
    /\ UNCHANGED <<stock_data, fundamentals, technicals, sentiment,
                   recommendation, rec_locals, response, valuation_metrics,
                   quality_metrics, momentum_metrics, risk_metrics,
                   composite_score, result_vars>>
    /\ UNCHANGED <<now, providers, first, rsi_result>>
    /\ UNCHANGED aux_vars

UnitMomentum ==
    /\ pc = "idle"
    /\ \E hist \in MomentumHists :
           /\ momentum_metrics' = analyze_momentum(hist)
           /\ call' = [op |-> "_analyze_momentum", hist |-> hist]
    /\ pc' = "momentum"
    /\ UNCHANGED <<stock_data, fundamentals, technicals, sentiment,
                   recommendation, rec_locals, response, financial_health,
                   valuation_metrics, quality_metrics, risk_metrics,
                   composite_score, result_vars>>
    /\ UNCHANGED <<now, providers, first, rsi_result>>
    /\ UNCHANGED aux_vars

UnitRisk ==
    /\ pc = "idle"
    /\ \E hist \in RiskHists :
           /\ risk_metrics' = analyze_risk(hist)
           /\ call' = [op |-> "_analyze_risk", hist |-> hist]
    /\ pc' = "risk"
    /\ UNCHANGED <<stock_data, fundamentals, technicals, sentiment,
                   recommendation, rec_locals, response, financial_health,
                   valuation_metrics, quality_metrics, momentum_metrics,
                   composite_score, result_vars>>
    /\ UNCHANGED <<now, providers, first, rsi_result>>
    /\ UNCHANGED aux_vars

UnitValuation ==
    /\ pc = "idle"
    /\ \E info \in ValuationInfos :
           /\ valuation_metrics' = analyze_valuation(info)
           /\ call' = [op |-> "_analyze_valuation", info |-> info]
    /\ pc' = "valuation"
    /\ UNCHANGED <<stock_data, fundamentals, technicals, sentiment,
                   recommendation, rec_locals, response, financial_health,
                   quality_metrics, momentum_metrics, risk_metrics,
                   composite_score, result_vars>>
    /\ UNCHANGED <<now, providers, first, rsi_result>>
    /\ UNCHANGED aux_vars

UnitQuality ==
    /\ pc = "idle"
    /\ \E src \in QualitySources :
           /\ quality_metrics' = analyze_quality(src)
           /\ call' = [op |-> "_analyze_quality", src |-> src]
    /\ pc' = "quality"
    /\ UNCHANGED <<stock_data, fundamentals, technicals, sentiment,
                   recommendation, rec_locals, response, financial_health,
                   valuation_metrics, momentum_metrics, risk_metrics,
                   composite_score, result_vars>>
    /\ UNCHANGED <<now, providers, first, rsi_result>>
    /\ UNCHANGED aux_vars

\* perform_comprehensive_analysis: the five scored extractions, then the
\* composite score, the confidence level, the insights and the warnings
\* computed from them
\* the window of the RSI calls of the model (the code's default is 14)
RsiPeriod == 3

\* the longest price series of the model
MaxPrices == 4

RECURSIVE SeqsUpTo(_, _)
SeqsUpTo(S, n) ==
    IF n = 0 THEN {<<>>}
    ELSE LET shorter == SeqsUpTo(S, n - 1)
         IN  shorter \cup {Append(s, x) : s \in {t \in shorter : Len(t) = n - 1},
                                           x \in S}

\* series of closes, in dollars
PriceSeries == SeqsUpTo({98, 100, 103}, MaxPrices)

UnitRsi ==
    /\ pc = "idle"
    /\ \E prices \in PriceSeries :
           /\ rsi_result' = calculate_rsi(prices, RsiPeriod)
           /\ call' = [op |-> "calculate_rsi", prices |-> prices,
                       period |-> RsiPeriod]
    /\ pc' = "rsi"
    /\ UNCHANGED <<stock_data, fundamentals, technicals, sentiment,
                   recommendation, rec_locals, response, comprehensive_vars>>
    /\ UNCHANGED <<now, providers, first>>
    /\ UNCHANGED aux_vars

PerformComprehensiveAnalysis ==
    /\ pc = "idle"
    /\ \E h \in HealthCases, m \in MomentumCases, r \in RiskCases,
          v \in ValuationCases, q \in QualityCases :
           /\ financial_health' = h
           /\ momentum_metrics' = m
           /\ risk_metrics' = r
           /\ valuation_metrics' = v
           /\ quality_metrics' = q
           /\ composite_score' = calculate_composite_score(h, v, q, m, r)
           /\ confidence_level' = calculate_confidence_level(h, q)
           /\ key_insights' = generate_key_insights(h, v, q, m, r)
           /\ warnings' = generate_warnings(h, q, r)
    /\ analysis_timestamp' = Some(now)
    /\ pc' = "comprehensive"
    /\ UNCHANGED <<stock_data, fundamentals, technicals, sentiment,
                   recommendation, rec_locals, response>>
    /\ UNCHANGED call_vars
    /\ UNCHANGED aux_vars

NextUnit ==
    \/ UnitFundamentals
    \/ UnitTechnicals
    \/ UnitSentiment
    \/ UnitFinancialHealth
    \/ UnitMomentum
    \/ UnitRisk
    \/ UnitValuation
    \/ UnitQuality
    \/ UnitRsi
    \/ PerformComprehensiveAnalysis

SpecUnit == InitUnit /\ [][NextUnit]_vars
----------------------------------------------------------------------------
(* api_analyze (src/api/index.py), standard mode: one request, its position  *)
(* between the provider calls in pc.                                         *)

\* FinancialAnalyzer.get_stock_data: q is the quote the provider answers
\* (q.ok is FALSE when the fetch raises or the 1d history is empty)
StockQuotes ==
    {q \in [ok : {TRUE}, symbol : {"AAPL"}, close : {0, 15000},
             previousClose : Opt({14000})] :
        q.close = 0 => q.previousClose # None}
    \cup [ok : {FALSE}, symbol : {"AAPL"}, close : {0}, previousClose : {None}]

get_stock_data(q) ==
    LET prev_close == IF IsNone(q.previousClose) THEN q.close ELSE Val(q.previousClose)
    IN  [symbol |-> q.symbol,
         current_price |-> q.close,
         change_percent |-> IF prev_close = 0 THEN 0
                            ELSE RoundDiv((q.close - prev_close) * 10000, prev_close)]

\* the provider answers the request path draws from
ApiFundInfos ==
    {i \in FundInfos :
        /\ i.trailingPE \in Opt({1200})
        /\ i.returnOnEquity \in Opt({22})
        /\ i.debtToEquity \in Opt({0})
        /\ i.revenueGrowth \in Opt({25})}
    \cup {FundInfoRaises}

ApiTechHists ==
    {h \in TechHists :
        /\ h.close # 10000 /\ h.sma_20 = 10000 /\ h.sma_50 # 10000
        /\ h.sma_200 \in Opt({8000})
        /\ h.rsi \in Opt({2500})
        /\ h.macd = Some(50) /\ h.macd_signal = Some(20)}
    \cup {TechHistRaises}

ApiAnalystInfos ==
    {i \in AnalystInfos :
        /\ i.recommendationKey \in {"strong_buy", "sell", "none"}
        /\ i.numberOfAnalystOpinions = 3}
    \cup {AnalystInfoRaises}

ApiSentimentProviders ==
    {q \in SentimentProviders :
        /\ q.news \in {0, 50, 100}
        /\ q.social \in {0, 50}
        /\ q.data_points = 0}

Init ==
    /\ pc = "get_stock_data"
    /\ stock_data = NoStockData
    /\ fundamentals = FundamentalMetrics
    /\ technicals = TechnicalMetrics
    /\ sentiment = SentimentMetrics
    /\ recommendation = NoRecommendation
    /\ rec_locals = NoLocals
    /\ response = "none"
    /\ NoComprehensive
    /\ NoCalls
    /\ NoAux

\* line 87: a ValueError of get_stock_data leaves the try block
GetStockData ==
    /\ pc = "get_stock_data"
    /\ \E q \in StockQuotes :
          IF q.ok
          THEN /\ stock_data' = get_stock_data(q)
               /\ pc' = "analyze_fundamentals"
          ELSE /\ stock_data' = stock_data
               /\ pc' = "raised"
    /\ UNCHANGED <<fundamentals, technicals, sentiment, recommendation,
                   rec_locals, response>>
    /\ UNCHANGED comprehensive_vars
    /\ UNCHANGED call_vars
    /\ UNCHANGED aux_vars

AnalyzeFundamentals ==
    /\ pc = "analyze_fundamentals"
    /\ \E info \in ApiFundInfos : fundamentals' = analyze_fundamentals(info)
    /\ pc' = "analyze_technicals"
    /\ UNCHANGED <<stock_data, technicals, sentiment, recommendation,
                   rec_locals, response>>
    /\ UNCHANGED comprehensive_vars
    /\ UNCHANGED call_vars
    /\ UNCHANGED aux_vars

AnalyzeTechnicals ==
    /\ pc = "analyze_technicals"
    /\ \E hist \in ApiTechHists : technicals' = analyze_technicals(hist)
    /\ pc' = "analyze_sentiment"
    /\ UNCHANGED <<stock_data, fundamentals, sentiment, recommendation,
                   rec_locals, response>>
    /\ UNCHANGED comprehensive_vars
    /\ UNCHANGED call_vars
    /\ UNCHANGED aux_vars

AnalyzeSentiment ==
    /\ pc = "analyze_sentiment"
    /\ \E info \in ApiAnalystInfos, provider \in ApiSentimentProviders :
          sentiment' = analyze_sentiment(info, provider)
    /\ pc' = "generate_recommendation"
    /\ UNCHANGED <<stock_data, fundamentals, technicals, recommendation,
                   rec_locals, response>>
    /\ UNCHANGED comprehensive_vars
    /\ UNCHANGED call_vars
    /\ UNCHANGED aux_vars

GenerateRecommendation ==
    /\ pc = "generate_recommendation"
    /\ \E quote \in Quotes : generate_recommendation(quote, "respond")
    /\ UNCHANGED <<stock_data, fundamentals, technicals, sentiment, response>>
    /\ UNCHANGED comprehensive_vars
    /\ UNCHANGED call_vars
    /\ UNCHANGED aux_vars

\* lines 93-154: the results are built and returned
Respond ==
    /\ pc = "respond"
    /\ response' = "ok"
    /\ pc' = "done"
    /\ UNCHANGED <<stock_data, fundamentals, technicals, sentiment,
                   recommendation, rec_locals>>
    /\ UNCHANGED comprehensive_vars
    /\ UNCHANGED call_vars
    /\ UNCHANGED aux_vars

\* lines 156-157: any exception becomes HTTP 500 "Analysis failed"
HandleException ==
    /\ pc = "raised"
    /\ response' = "error"
    /\ pc' = "done"
    /\ UNCHANGED <<stock_data, fundamentals, technicals, sentiment,
                   recommendation, rec_locals>>
    /\ UNCHANGED comprehensive_vars
    /\ UNCHANGED call_vars
    /\ UNCHANGED aux_vars

Next ==
    \/ GetStockData
    \/ AnalyzeFundamentals
    \/ AnalyzeTechnicals
    \/ AnalyzeSentiment
    \/ GenerateRecommendation
    \/ Respond
    \/ HandleException

Spec == Init /\ [][Next]_vars

\* C2: once get_stock_data has succeeded the analysis ends with a result,
\* whichever of the later provider fetches fail; only a failure of the base
\* quote ends it in an error.
C2_OnlyBaseQuoteFails ==
    pc = "done" =>
        /\ (stock_data # NoStockData => response = "ok")
        /\ (stock_data = NoStockData => response = "error")

----------------------------------------------------------------------------
(* SentimentAnalyzer: the news and social sentiment of a feed read at time  *)
(* t (in days).  Sentiment and relevance scores are in percent.              *)

\* recency_weight = max(0.1, 1.0 - days_old / 7.0), in seventieths
recency_weight(published, t) == Max(7, 70 - 10 * (t - published))

\* upvote_weight = min(2.0, 1.0 + upvotes / 100.0), in hundredths
upvote_weight(upvotes) == Min(200, 100 + upvotes)

\* the loop of calculate_news_sentiment from item i:
\* <<total_weighted_sentiment, total_weight>>
RECURSIVE news_loop(_, _, _, _)
news_loop(articles, t, i, acc) ==
    IF i > Len(articles) THEN acc
    ELSE LET weight == articles[i].relevance_score
                       * recency_weight(articles[i].published_at, t)
         IN  news_loop(articles, t, i + 1,
                 <<acc[1] + ((articles[i].sentiment_score + 100) \div 2) * weight,
                   acc[2] + weight>>)

calculate_news_sentiment(articles, t) ==
    IF articles = <<>> THEN 50
    ELSE LET sums == news_loop(articles, t, 1, <<0, 0>>)
         IN  IF sums[2] = 0 THEN 50 ELSE sums[1] \div sums[2]

RECURSIVE social_loop(_, _, _, _)
social_loop(posts, t, i, acc) ==
    IF i > Len(posts) THEN acc
    ELSE LET weight == posts[i].relevance_score
                       * recency_weight(posts[i].timestamp, t)
                       * upvote_weight(posts[i].upvotes)
         IN  social_loop(posts, t, i + 1,
                 <<acc[1] + ((posts[i].sentiment_score + 100) \div 2) * weight,
                   acc[2] + weight>>)

calculate_social_sentiment(posts, t) ==
    IF posts = <<>> THEN 50
    ELSE LET sums == social_loop(posts, t, 1, <<0, 0>>)
         IN  IF sums[2] = 0 THEN 50 ELSE sums[1] \div sums[2]

\* analyze_stock_sentiment as analyze_sentiment reads it: feed is what the
\* news and social APIs answer, feed.state the provider's availability
analyze_stock_sentiment(feed, t) ==
    [state |-> feed.state,
     news |-> calculate_news_sentiment(feed.articles, t),
     social |-> calculate_social_sentiment(feed.posts, t),
     data_points |-> Len(feed.articles) + Len(feed.posts)]

----------------------------------------------------------------------------
(* The full analysis of one symbol, as analyze_stock runs it: the standard  *)
(* analysis, then the comprehensive one when the mode asks for it.           *)

\* perform_comprehensive_analysis at time t
perform_comprehensive_analysis(src, t) ==
    LET h == analyze_financial_health(src.health)
        m == analyze_momentum(src.momentum)
        r == analyze_risk(src.risk)
        v == analyze_valuation(src.valuation)
        q == analyze_quality(src.quality)
    IN  [financial_health |-> h,
         momentum_metrics |-> m,
         risk_metrics |-> r,
         valuation_metrics |-> v,
         quality_metrics |-> q,
         composite_score |-> calculate_composite_score(h, v, q, m, r),
         confidence_level |-> calculate_confidence_level(h, q),
         key_insights |-> generate_key_insights(h, v, q, m, r),
         warnings |-> generate_warnings(h, q, r),
         analysis_timestamp |-> Some(t)]

\* comprehensive = None
NoComprehensiveAnalysis ==
    [financial_health |-> FinancialHealthMetrics,
     momentum_metrics |-> MomentumMetrics,
     risk_metrics |-> RiskMetrics,
     valuation_metrics |-> ValuationMetrics,
     quality_metrics |-> QualityMetrics,
     composite_score |-> [num |-> 0, den |-> 1],
     confidence_level |-> 0,
     key_insights |-> <<>>,
     warnings |-> <<>>,
     analysis_timestamp |-> None]

\* what a request that ended in HTTPException(500) leaves
FailedAnalysis ==
    [response |-> "error",
     stock_data |-> NoStockData,
     fundamentals |-> FundamentalMetrics,
     technicals |-> TechnicalMetrics,
     sentiment |-> SentimentMetrics,
     recommendation |-> NoRecommendation,
     comprehensive |-> NoComprehensiveAnalysis]

\* analyze_stock on the provider answers p at time t
full_analysis(p, t) ==
    IF ~p.quote.ok \/ ~p.price.ok THEN FailedAnalysis
    ELSE LET f == analyze_fundamentals(p.fund)
             tech == analyze_technicals(p.tech)
             s == analyze_sentiment(p.analyst, analyze_stock_sentiment(p.feed, t))
             l == recommendation_locals(f, tech, s, p.price)
         IN  [response |-> "ok",
              stock_data |-> get_stock_data(p.quote),
              fundamentals |-> f,
              technicals |-> tech,
              sentiment |-> s,
              recommendation |-> Recommendation(l, f, tech, s),
              comprehensive |-> IF p.mode = "comprehensive"
                                THEN perform_comprehensive_analysis(p, t)
                                ELSE NoComprehensiveAnalysis]

----------------------------------------------------------------------------
(* The full analysis run twice on one symbol against the same provider      *)
(* answers; the clock may advance between the two runs.                      *)

\* the longest wait between the two runs, in days
MaxWait == 1

\* what the news and social APIs hold for the symbol
Feeds ==
    {[state |-> "no_keys", articles |-> <<>>, posts |-> <<>>],
     [state |-> "raises", articles |-> <<>>, posts |-> <<>>],
     [state |-> "ok",
      articles |-> <<[sentiment_score |-> 100, relevance_score |-> 100,
                      published_at |-> 0],
                     [sentiment_score |-> -100, relevance_score |-> 100,
                      published_at |-> 3]>>,
      posts |-> <<>>],
     [state |-> "ok",
      articles |-> <<>>,
      posts |-> <<[sentiment_score |-> 100, relevance_score |-> 100,
                   timestamp |-> 3, upvotes |-> 150],
                  [sentiment_score |-> -100, relevance_score |-> 50,
                   timestamp |-> 1, upvotes |-> 0]>>]}

TwiceProviders ==
    {p \in [symbol : {"AAPL"},
            mode : {"standard", "comprehensive"},
            quote : {q \in StockQuotes : q.close = 15000 => q.previousClose # None},
            price : {q \in Quotes : q.close \in {0, 15000}},
            fund : {i \in ApiFundInfos : None \notin {i.trailingPE, i.returnOnEquity,
                                                       i.debtToEquity, i.revenueGrowth}}
                   \cup {FundInfoRaises},
            tech : {h \in ApiTechHists : h.len = 250 /\ h.close = 11000
                                         /\ h.sma_50 = 9000 /\ h.rsi # None}
                   \cup {TechHistRaises},
            analyst : {i \in ApiAnalystInfos : i.recommendationKey = "strong_buy"}
                      \cup {AnalystInfoRaises},
            feed : Feeds,
            health : {s \in HealthSources :
                         s.piotroski_score \in {None, Some(7)}
                         /\ s.altman_z_score \in {None, Some(150)}
                         /\ (s.piotroski_score = None <=> s.altman_z_score = None)},
            momentum : {h \in MomentumHists : h.len = 60 /\ h.momentum_1m = 1500},
            risk : {h \in RiskHists : /\ h.sharpe_ratio = None /\ h.max_drawdown = 0
                                       /\ (h.ok => h.spy_ok /\ h.aligned = 29
                                                   /\ h.covariance = 3)},
            valuation : {i \in ValuationInfos :
                            i.currentPrice = Some(12000) /\ i.dcf_estimate = Some(20000)
                            /\ i.price_to_fcf = None},
            quality : {s \in QualitySources :
                          s.cf_to_earnings \in {None, Some(150)}
                          /\ s.returnOnAssets = None /\ s.debtToEquity = None}] :
        p.mode = "standard" =>
            ~p.health.ok /\ ~p.risk.ok /\ ~p.quality.ok}

\* the records of the last analysis
Outputs ==
    [response |-> response,
     stock_data |-> stock_data,
     fundamentals |-> fundamentals,
     technicals |-> technicals,
     sentiment |-> sentiment,
     recommendation |-> recommendation,
     comprehensive |->
         [financial_health |-> financial_health,
          momentum_metrics |-> momentum_metrics,
          risk_metrics |-> risk_metrics,
          valuation_metrics |-> valuation_metrics,
          quality_metrics |-> quality_metrics,
          composite_score |-> composite_score,
          confidence_level |-> confidence_level,
          key_insights |-> key_insights,
          warnings |-> warnings,
          analysis_timestamp |-> analysis_timestamp]]

\* the analysis returns out
Return(out) ==
    /\ response' = out.response
    /\ stock_data' = out.stock_data
    /\ fundamentals' = out.fundamentals
    /\ technicals' = out.technicals
    /\ sentiment' = out.sentiment
    /\ recommendation' = out.recommendation
    /\ financial_health' = out.comprehensive.financial_health
    /\ momentum_metrics' = out.comprehensive.momentum_metrics
    /\ risk_metrics' = out.comprehensive.risk_metrics
    /\ valuation_metrics' = out.comprehensive.valuation_metrics
    /\ quality_metrics' = out.comprehensive.quality_metrics
    /\ composite_score' = out.comprehensive.composite_score
    /\ confidence_level' = out.comprehensive.confidence_level
    /\ key_insights' = out.comprehensive.key_insights
    /\ warnings' = out.comprehensive.warnings
    /\ analysis_timestamp' = out.comprehensive.analysis_timestamp

InitTwice ==
    /\ pc = "first"
    /\ stock_data = NoStockData
    /\ fundamentals = FundamentalMetrics
    /\ technicals = TechnicalMetrics
    /\ sentiment = SentimentMetrics
    /\ recommendation = NoRecommendation
    /\ rec_locals = NoLocals
    /\ response = "none"
    /\ NoComprehensive
    /\ now = 3
    /\ providers \in TwiceProviders
    /\ first = NoFirst
    /\ call = NoCall
    /\ rsi_result = NoRsi
    /\ NoAux

FirstAnalysis ==
    /\ pc = "first"
    /\ LET out == full_analysis(providers, now)
       IN  /\ Return(out)
           /\ first' = [response |-> out.response, time |-> now, result |-> out]
    /\ pc' = "wait"
    /\ UNCHANGED <<rec_locals, now, providers, call, rsi_result>>
    /\ UNCHANGED aux_vars

Wait ==
    /\ pc = "wait"
    /\ \E days \in 0..MaxWait : now' = now + days
    /\ pc' = "second"
    /\ UNCHANGED <<stock_data, fundamentals, technicals, sentiment,
                   recommendation, rec_locals, response, comprehensive_vars,
                   providers, first, call, rsi_result>>
    /\ UNCHANGED aux_vars

SecondAnalysis ==
    /\ pc = "second"
    /\ Return(full_analysis(providers, now))
    /\ pc' = "finished"
    /\ UNCHANGED <<rec_locals, now, providers, first, call, rsi_result>>
    /\ UNCHANGED aux_vars

NextTwice ==
    \/ FirstAnalysis
    \/ Wait
    \/ SecondAnalysis

SpecTwice == InitTwice /\ [][NextTwice]_vars

----------------------------------------------------------------------------
(* Two requests of analyze_stock (src/api/index.py) for different symbols,   *)
(* interleaved at every call of a method of the shared analyzers.            *)

Requests == {1, 2}

RequestSymbols == <<"AAPL", "MSFT">>

\* what the providers answer for the symbol of request r
RequestProviders(r) ==
    {[p EXCEPT !.symbol = RequestSymbols[r],
               !.quote = [p.quote EXCEPT !.symbol = RequestSymbols[r]]] :
        p \in {q \in TwiceProviders :
                  /\ (q.quote.ok => q.quote.close = 15000)
                  /\ q.price.close # 0
                  /\ q.fund.ok = (r = 1)
                  /\ q.tech.ok
                  /\ q.analyst.ok = (r = 2)
                  /\ q.feed.state = (IF r = 1 THEN "no_keys" ELSE "ok")
                  /\ (q.feed.articles # <<>>) = (r = 2)
                  /\ q.health.ok = (q.mode = "comprehensive")
                  /\ q.risk.ok = (q.mode = "comprehensive")
                  /\ q.risk.len = (IF q.mode = "comprehensive" THEN 300 ELSE 0)
                  /\ q.quality.ok = (q.mode = "comprehensive")
                  /\ (q.mode = "comprehensive"
                         => q.health.piotroski_score = (IF r = 1 THEN Some(7) ELSE None)
                            /\ q.quality.cf_to_earnings = None)}}

\* the locals of a request that has not called anything yet
NewRequest(p) ==
    [pc |-> "get_stock_data",
     p |-> p,
     response |-> "none",
     stock_data |-> NoStockData,
     fundamentals |-> FundamentalMetrics,
     technicals |-> TechnicalMetrics,
     sentiment |-> SentimentMetrics,
     recommendation |-> NoRecommendation,
     comprehensive |-> NoComprehensiveAnalysis]

\* the request raised: HTTPException(500)
Failed(req) ==
    [pc |-> "done", p |-> req.p] @@ FailedAnalysis

\* what the request answers
ResultOf(req) ==
    [response |-> req.response,
     stock_data |-> req.stock_data,
     fundamentals |-> req.fundamentals,
     technicals |-> req.technicals,
     sentiment |-> req.sentiment,
     recommendation |-> req.recommendation,
     comprehensive |-> req.comprehensive]

InitConcurrent ==
    /\ pc = "serving"
    /\ stock_data = NoStockData
    /\ fundamentals = FundamentalMetrics
    /\ technicals = TechnicalMetrics
    /\ sentiment = SentimentMetrics
    /\ recommendation = NoRecommendation
    /\ rec_locals = NoLocals
    /\ response = "none"
    /\ NoComprehensive
    /\ now = 3
    /\ providers = NoProviders
    /\ first = NoFirst
    /\ call = NoCall
    /\ rsi_result = NoRsi
    /\ \E p1 \in RequestProviders(1), p2 \in RequestProviders(2) :
           requests = <<NewRequest(p1), NewRequest(p2)>>
    /\ instances = Instances
    /\ NoContext
    /\ NoCache
    /\ NoConfig
    /\ NoTui
    /\ NoTerminals

\* request r calls method on the shared instances and goes on with locals next
MethodCall(r, method, result, next) ==
    /\ requests' = [requests EXCEPT ![r] = next]
    /\ instances' = instances_after(instances, method, result)
    /\ UNCHANGED analysis_vars
    /\ UNCHANGED <<context_metrics, cache_vars, config_vars, tui_vars,
                   terminal_vars>>

ReqGetStockData(r) ==
    /\ requests[r].pc = "get_stock_data"
    /\ LET req == requests[r]
       IN  IF ~req.p.quote.ok
           THEN MethodCall(r, "get_stock_data", NoStockData, Failed(req))
           ELSE LET result == get_stock_data(req.p.quote)
                IN  MethodCall(r, "get_stock_data", result,
                        [req EXCEPT !.stock_data = result,
                                    !.pc = "analyze_fundamentals"])

ReqAnalyzeFundamentals(r) ==
    /\ requests[r].pc = "analyze_fundamentals"
    /\ LET req == requests[r]
           result == analyze_fundamentals(req.p.fund)
       IN  MethodCall(r, "analyze_fundamentals", result,
               [req EXCEPT !.fundamentals = result, !.pc = "analyze_technicals"])

ReqAnalyzeTechnicals(r) ==
    /\ requests[r].pc = "analyze_technicals"
    /\ LET req == requests[r]
           result == analyze_technicals(req.p.tech)
       IN  MethodCall(r, "analyze_technicals", result,
               [req EXCEPT !.technicals = result, !.pc = "analyze_sentiment"])

ReqAnalyzeSentiment(r) ==
    /\ requests[r].pc = "analyze_sentiment"
    /\ LET req == requests[r]
           result == analyze_sentiment(req.p.analyst,
                                       analyze_stock_sentiment(req.p.feed, now))
       IN  MethodCall(r, "analyze_sentiment", result,
               [req EXCEPT !.sentiment = result, !.pc = "generate_recommendation"])

ReqGenerateRecommendation(r) ==
    /\ requests[r].pc = "generate_recommendation"
    /\ LET req == requests[r]
       IN  IF ~req.p.price.ok
           THEN MethodCall(r, "generate_recommendation", NoRecommendation,
                           Failed(req))
           ELSE LET l == recommendation_locals(req.fundamentals, req.technicals,
                                               req.sentiment, req.p.price)
                    result == Recommendation(l, req.fundamentals, req.technicals,
                                             req.sentiment)
                IN  MethodCall(r, "generate_recommendation", result,
                        [req EXCEPT !.recommendation = result,
                                    !.pc = IF req.p.mode = "comprehensive"
                                           THEN "perform_comprehensive_analysis"
                                           ELSE "respond"])

ReqPerformComprehensiveAnalysis(r) ==
    /\ requests[r].pc = "perform_comprehensive_analysis"
    /\ LET req == requests[r]
           result == perform_comprehensive_analysis(req.p, now)
       IN  MethodCall(r, "perform_comprehensive_analysis", result,
               [req EXCEPT !.comprehensive = result, !.pc = "respond"])

\* the template response: no method of the analyzers is called
ReqRespond(r) ==
    /\ requests[r].pc = "respond"
    /\ requests' = [requests EXCEPT ![r].response = "ok", ![r].pc = "done"]
    /\ UNCHANGED <<instances, analysis_vars>>
    /\ UNCHANGED <<context_metrics, cache_vars, config_vars, tui_vars,
                   terminal_vars>>

NextConcurrent ==
    \/ \E r \in Requests : ReqGetStockData(r)
    \/ \E r \in Requests : ReqAnalyzeFundamentals(r)
    \/ \E r \in Requests : ReqAnalyzeTechnicals(r)
    \/ \E r \in Requests : ReqAnalyzeSentiment(r)
    \/ \E r \in Requests : ReqGenerateRecommendation(r)
    \/ \E r \in Requests : ReqPerformComprehensiveAnalysis(r)
    \/ \E r \in Requests : ReqRespond(r)

SpecConcurrent == InitConcurrent /\ [][NextConcurrent]_vars

----------------------------------------------------------------------------
(* Claims about generate_recommendation, checked under SpecRec *)

Returned == pc = "returned"

\* the sub-scores that are available (score > 0), as <<score, weight>>
AvailablePillars ==
    SelectSeq(<<<<fundamentals.score, 5>>, <<technicals.score, 3>>,
                <<sentiment.score, 2>>>>,
              LAMBDA p : p[1] > 0)

\* C1: the overall score is the weighted average over the available
\* sub-scores only: sum(score * weight) / sum(weight) over those with
\* score > 0, so with exactly one available it equals that sub-score.
C1_OverallIsAverageOfAvailable ==
    Returned /\ Len(AvailablePillars) > 0 =>
        rec_locals.overall_score
            * SumSeq([i \in 1..Len(AvailablePillars) |-> AvailablePillars[i][2]])
        = 10 * SumSeq([i \in 1..Len(AvailablePillars) |->
                          AvailablePillars[i][1] * AvailablePillars[i][2]])

\* C3: the action is STRONG_BUY for a computed overall score >= 80, BUY for
\* 65 <= s < 80, HOLD for 35 <= s < 65, SELL for 20 <= s < 35 and
\* STRONG_SELL below 20; every boundary belongs to the higher action.
C3_ActionByThresholds ==
    Returned =>
        LET x == rec_locals.overall_score
            a == recommendation.action
        IN  /\ a \in {"STRONG_BUY", "BUY", "HOLD", "SELL", "STRONG_SELL"}
            /\ (a = "STRONG_BUY" <=> x >= 8000)
            /\ (a = "BUY" <=> x >= 6500 /\ x < 8000)
            /\ (a = "HOLD" <=> x >= 3500 /\ x < 6500)
            /\ (a = "SELL" <=> x >= 2000 /\ x < 3500)
            /\ (a = "STRONG_SELL" <=> x < 2000)

\* a call whose overall score is exactly 80 returned STRONG_BUY
C3_Witness ==
    Returned /\ rec_locals.overall_score = 8000 /\ recommendation.action = "STRONG_BUY"

\* C4: the action of a returned Recommendation is the one the thresholds
\* assign to the overall_score field of that record.
C4_ActionMatchesReturnedScore ==
    Returned =>
        LET x == recommendation.overall_score
            a == recommendation.action
        IN  /\ (a = "STRONG_BUY" <=> x >= 800)
            /\ (a = "BUY" <=> x >= 650 /\ x < 800)
            /\ (a = "HOLD" <=> x >= 350 /\ x < 650)
            /\ (a = "SELL" <=> x >= 200 /\ x < 350)
            /\ (a = "STRONG_SELL" <=> x < 200)

\* 9 * variance of the three scores, in tenths squared
PillarSpread ==
    LET a == fundamentals.score
        b == technicals.score
        c == sentiment.score
    IN  3 * (a * a + b * b + c * c) - (a + b + c) * (a + b + c)

\* C5: the confidence is 100 - 2 * stddev(fundamental, technical, sentiment)
\* clamped into [20, 95] (to the model's precision of 1/100), and the
\* returned confidence is never below 20 and never above 95.
C5_ConfidenceClamped ==
    Returned =>
        LET c == rec_locals.confidence
            d == 10000 - c
        IN  /\ recommendation.confidence >= 200
            /\ recommendation.confidence <= 950
            /\ c >= 2000 /\ c <= 9500
            /\ (c = 9500 => 400 * PillarSpread < 9 * 501 * 501)
            /\ (c = 2000 => 400 * PillarSpread >= 9 * 8000 * 8000)
            /\ (c > 2000 /\ c < 9500 =>
                    /\ 9 * d * d <= 400 * PillarSpread
                    /\ 400 * PillarSpread < 9 * (d + 1) * (d + 1))

\* a call with widely dispersed scores returned the floor of 20
C5_Witness ==
    /\ Returned
    /\ 400 * PillarSpread > 9 * 8000 * 8000
    /\ recommendation.confidence = 200

\* C6: the risk level is LOW for a confidence above 80, MEDIUM for a
\* confidence above 60 and at most 80, HIGH otherwise; three scores of
\* exactly 60 give overall score 60, confidence 95 and risk LOW.
C6_RiskLevel ==
    Returned =>
        LET c == rec_locals.confidence
            r == recommendation.risk_level
        IN  /\ (r = "LOW" <=> c > 8000)
            /\ (r = "MEDIUM" <=> c > 6000 /\ c <= 8000)
            /\ (r = "HIGH" <=> c <= 6000)
            /\ (fundamentals.score = 600 /\ technicals.score = 600
                    /\ sentiment.score = 600 =>
                    /\ recommendation.overall_score = 600
                    /\ recommendation.confidence = 950
                    /\ r = "LOW")

\* the three scores were exactly 60 and the call returned risk LOW
C6_Witness ==
    /\ Returned
    /\ fundamentals.score = 600 /\ technicals.score = 600 /\ sentiment.score = 600
    /\ recommendation.risk_level = "LOW"

\* C7: the price target is current_price * (1 + (overall_score - 50) / 500)
\* for BUY and STRONG_BUY, current_price * (1 - (50 - overall_score) / 500)
\* for SELL and STRONG_SELL (to the cent), and None exactly when the action
\* is HOLD.
C7_PriceTarget ==
    Returned =>
        LET x == rec_locals.overall_score
            a == recommendation.action
            p == rec_locals.current_price
        IN  /\ (a \in {"BUY", "STRONG_BUY"} =>
                    recommendation.price_target
                        = Some(RoundDiv(p * (50000 + (x - 5000)), 50000)))
            /\ (a \in {"SELL", "STRONG_SELL"} =>
                    recommendation.price_target
                        = Some(RoundDiv(p * (50000 - (5000 - x)), 50000)))
            /\ (recommendation.price_target = None <=> a = "HOLD")

----------------------------------------------------------------------------
(* Claims about the scores, checked under SpecUnit *)

\* C8: every score field (fundamental, technical, sentiment, financial
\* health, momentum, risk, valuation, quality and the composite) lies in
\* [0, 100], whatever the raw metric values
C8_ScoresInRange ==
    /\ fundamentals.score >= 0 /\ fundamentals.score <= Pts(100)
    /\ technicals.score >= 0 /\ technicals.score <= Pts(100)
    /\ sentiment.score >= 0 /\ sentiment.score <= Pts(100)
    /\ financial_health.score >= 0 /\ financial_health.score <= CPts(100)
    /\ momentum_metrics.score >= 0 /\ momentum_metrics.score <= CPts(100)
    /\ risk_metrics.risk_score >= 0 /\ risk_metrics.risk_score <= CPts(100)
    /\ valuation_metrics.valuation_score >= 0
    /\ valuation_metrics.valuation_score <= CPts(100)
    /\ quality_metrics.score >= 0 /\ quality_metrics.score <= CPts(100)
    /\ composite_score.den > 0
    /\ composite_score.num >= 0
    /\ composite_score.num <= CPts(100) * composite_score.den

\* a technical analysis whose points add up to 105 and whose score is 100
C8_Witness ==
    /\ pc = "technicals"
    /\ technicals.rsi # None /\ Val(technicals.rsi) < 3000
    /\ technicals.trend = "STRONG_BULLISH"
    /\ technicals.macd # None /\ technicals.macd_signal # None
    /\ Val(technicals.macd) > Val(technicals.macd_signal)
    /\ technicals.score = Pts(100)

\* C9: the composite score is the sum of score * weight over the categories
\* with a score above 0, divided by the sum of those categories' weights
\* (financial health 0.20, valuation 0.15, quality 0.10, momentum 0.10,
\* risk 0.05), and it is 50 when all five scores are 0
C9_CompositeIsWeightedMean ==
    pc = "comprehensive" =>
        LET W(score, weight) == IF score > 0 THEN weight ELSE 0
            total == W(financial_health.score, 20)
                     + W(valuation_metrics.valuation_score, 15)
                     + W(quality_metrics.score, 10)
                     + W(momentum_metrics.score, 10)
                     + W(risk_metrics.risk_score, 5)
            sum == financial_health.score * W(financial_health.score, 20)
                   + valuation_metrics.valuation_score
                         * W(valuation_metrics.valuation_score, 15)
                   + quality_metrics.score * W(quality_metrics.score, 10)
                   + momentum_metrics.score * W(momentum_metrics.score, 10)
                   + risk_metrics.risk_score * W(risk_metrics.risk_score, 5)
        IN  IF total = 0
            THEN composite_score.num = CPts(50) * composite_score.den
            ELSE composite_score.num * total = sum * composite_score.den

\* a composite over some categories at 0 and others, unequal, above 0
C9_Witness ==
    /\ pc = "comprehensive"
    /\ financial_health.score = 0
    /\ momentum_metrics.score = 0
    /\ valuation_metrics.valuation_score > 0
    /\ quality_metrics.score > valuation_metrics.valuation_score
    /\ risk_metrics.risk_score > 0

\* C10: in every rule table a metric that is exactly 0 is scored by the
\* table's branch for 0 (P/E 0 is below 15: +10; ROE 0 is below 5: -10;
\* D/E 0 is below 0.3: +10; revenue growth 0: +0; 1m momentum 0: -10;
\* drawdown 0 is above -10: +15; cash flow to earnings 0: -20); only a
\* metric that is None adds nothing
C10_ZeroIsAvailable ==
    /\ (/\ pc = "fundamentals"
        /\ fundamentals.pe_ratio \in {None, Some(0)}
        /\ fundamentals.roe \in {None, Some(0)}
        /\ fundamentals.debt_to_equity \in {None, Some(0)}
        /\ fundamentals.revenue_growth \in {None, Some(0)}
        /\ Some(0) \in {fundamentals.pe_ratio, fundamentals.roe,
                         fundamentals.debt_to_equity,
                         fundamentals.revenue_growth})
       => fundamentals.score =
              Pts(50 + (IF fundamentals.pe_ratio = Some(0) THEN 10 ELSE 0)
                     - (IF fundamentals.roe = Some(0) THEN 10 ELSE 0)
                     + (IF fundamentals.debt_to_equity = Some(0) THEN 10 ELSE 0))
    /\ (pc = "momentum" /\ momentum_metrics.price_momentum_1m = Some(0))
       => momentum_metrics.score = CPts(40)
    /\ (/\ pc = "risk"
        /\ risk_metrics.sharpe_ratio = None
        /\ risk_metrics.max_drawdown = Some(0))
       => risk_metrics.risk_score = CPts(65)
    /\ (pc = "quality" /\ quality_metrics.cash_flow_to_earnings = Some(0))
       => quality_metrics.score =
              CPts(50 - 10 * Len(quality_metrics.accounting_red_flags))

----------------------------------------------------------------------------
(* Claims about analyze_sentiment, checked under SpecUnit *)

SentimentCalled == pc = "sentiment" /\ call.op = "analyze_sentiment"

ProviderUnavailable == call.provider.state \in {"import_error", "no_keys", "raises"}

\* C12: when the sentiment provider is unavailable (module missing, no API
\* keys, or a raising analysis call), analyze_sentiment returns a record (it
\* does not raise) whose score is the analyst-rating score (strong_buy 90,
\* buy 75, hold 50, sell 25, strong_sell 10, any other rating 50) and which
\* keeps the analyst rating and count read from ticker.info
C12_FallbackToAnalystRating ==
    (SentimentCalled /\ ProviderUnavailable /\ call.info.ok) =>
        LET key == call.info.recommendationKey
        IN  /\ (key = "strong_buy" => sentiment.score = Pts(90))
            /\ (key = "buy" => sentiment.score = Pts(75))
            /\ (key = "hold" => sentiment.score = Pts(50))
            /\ (key = "sell" => sentiment.score = Pts(25))
            /\ (key = "strong_sell" => sentiment.score = Pts(10))
            /\ (key \notin {"strong_buy", "buy", "hold", "sell", "strong_sell"}
                   => sentiment.score = Pts(50))
            /\ sentiment.analyst_score # None
            /\ Pts(Val(sentiment.analyst_score)) = sentiment.score
            /\ sentiment.analyst_rating # None
            /\ (key = "strong_buy" => sentiment.analyst_rating = Some("Strong Buy"))
            /\ (key = "sell" => sentiment.analyst_rating = Some("Sell"))
            /\ sentiment.analyst_count = Some(call.info.numberOfAnalystOpinions)
            /\ sentiment.news_sentiment = None
            /\ sentiment.social_sentiment = None

\* the analysis call raised for a symbol rated outside the table
C12_Witness ==
    /\ SentimentCalled
    /\ call.provider.state = "raises"
    /\ call.info.ok
    /\ call.info.recommendationKey = "underperform"
    /\ call.info.numberOfAnalystOpinions = 12
    /\ sentiment.score = Pts(50)
    /\ sentiment.analyst_count = Some(12)

----------------------------------------------------------------------------
(* Claims about the insights, the warnings and the confidence level of       *)
(* perform_comprehensive_analysis, checked under SpecUnit                    *)

ComprehensiveDone == pc = "comprehensive"

\* the fixed texts of a list of insights or warnings
Texts(messages) == {messages[i].text : i \in DOMAIN messages}

\* C13: the bankruptcy-risk warning is emitted exactly when the Altman
\* Z-score is available and below 1.8
C13_BankruptcyWarningIffLowZ ==
    ComprehensiveDone =>
        ("Elevated bankruptcy risk (low Altman Z-score)" \in Texts(warnings)
         <=> (financial_health.altman_z_score # None
              /\ Val(financial_health.altman_z_score) < 180))

----------------------------------------------------------------------------
(* Claims about the standard scoring functions, checked under SpecUnit *)

\* C14: the fundamental score is clamp(50 + P/E delta + ROE delta + D/E
\* delta + growth delta, 0, 100), the P/E delta being +10 for P/E < 15, +5
\* for P/E < 25, -10 for P/E > 40 and +0 otherwise or when P/E is missing;
\* the other three metrics are taken where their tables are not in question
\* (missing or different from 0)
C14_FundamentalScoreByTables ==
    (/\ pc = "fundamentals"
     /\ call.info.ok
     /\ Some(0) \notin {fundamentals.roe, fundamentals.debt_to_equity,
                         fundamentals.revenue_growth})
    => LET pe == fundamentals.pe_ratio
           roe == fundamentals.roe
           de == fundamentals.debt_to_equity
           rg == fundamentals.revenue_growth
           pe_delta == IF pe = None THEN 0
                       ELSE IF Val(pe) < 1500 THEN 10
                       ELSE IF Val(pe) < 2500 THEN 5
                       ELSE IF Val(pe) > 4000 THEN -10 ELSE 0
           roe_delta == IF roe = None THEN 0
                        ELSE IF Val(roe) > 2000 THEN 15
                        ELSE IF Val(roe) > 1500 THEN 10
                        ELSE IF Val(roe) > 1000 THEN 5
                        ELSE IF Val(roe) < 500 THEN -10 ELSE 0
           de_delta == IF de = None THEN 0
                       ELSE IF Val(de) < 30 THEN 10
                       ELSE IF Val(de) < 60 THEN 5
                       ELSE IF Val(de) > 100 THEN -10 ELSE 0
           rg_delta == IF rg = None THEN 0
                       ELSE IF Val(rg) > 2000 THEN 15
                       ELSE IF Val(rg) > 1000 THEN 10
                       ELSE IF Val(rg) > 500 THEN 5
                       ELSE IF Val(rg) < 0 THEN -10 ELSE 0
           sum == 50 + pe_delta + roe_delta + de_delta + rg_delta
       IN  fundamentals.score
               = Pts(IF sum < 0 THEN 0 ELSE IF sum > 100 THEN 100 ELSE sum)

----------------------------------------------------------------------------
(* Claims about the indicator functions, checked under SpecUnit *)

RsiCalled == pc = "rsi" /\ call.op = "calculate_rsi"

\* C16: _calculate_rsi returns a value in [0, 100] or None; it returns None
\* when the series has fewer than period observations and when the average
\* loss over the window is zero
C16_RsiInRangeOrNone ==
    RsiCalled =>
        /\ rsi_result.kind \in {"none", "value"}
        /\ (rsi_result.kind = "value"
               => rsi_result.value >= 0 /\ rsi_result.value <= 10000)
        /\ (Len(call.prices) < call.period => rsi_result.kind = "none")
        /\ (/\ Len(call.prices) >= call.period
            /\ \A i \in (Len(call.prices) - call.period + 1)..Len(call.prices) :
                   i > 1 => call.prices[i] >= call.prices[i - 1])
           => rsi_result.kind = "none"

\* C17: with the SPY returns fetched, beta is None exactly when the aligned
\* sample has fewer than 50 rows or the market variance is 0; with 50 or
\* more aligned rows and a non-zero market variance beta is
\* covariance(stock, market) / variance(market)
C17_BetaNoneIffSmallSample ==
    (/\ pc = "risk" /\ call.op = "_analyze_risk"
     /\ call.hist.ok /\ call.hist.len >= 50 /\ call.hist.spy_ok)
    => /\ (risk_metrics.beta = None
           <=> (call.hist.aligned < 50 \/ call.hist.spy_variance = 0))
       /\ (call.hist.aligned >= 50 /\ call.hist.spy_variance # 0)
          => risk_metrics.beta = Some([num |-> call.hist.covariance,
                                       den |-> call.hist.spy_variance])

\* the place of a category in the order of the insights
InsightRank(category) ==
    CASE category = "health" -> 1
      [] category = "valuation" -> 2
      [] category = "quality" -> 3
      [] category = "risk" -> 4

\* C18: the key insights are at most 5 strings in the order health,
\* valuation, quality, risk; the strong-health insight is there exactly when
\* the Piotroski score is available and >= 7, the weak-health insight
\* exactly when it is available and <= 3, and never both
C18_KeyInsights ==
    ComprehensiveDone =>
        LET p == financial_health.piotroski_score
        IN  /\ Len(key_insights) <= 5
            /\ \A i, j \in DOMAIN key_insights :
                   i < j => InsightRank(key_insights[i].category)
                            < InsightRank(key_insights[j].category)
            /\ ("Strong financial health" \in Texts(key_insights)
                <=> (p # None /\ Val(p) >= 7))
            /\ ("Weak financial health" \in Texts(key_insights)
                <=> (p # None /\ Val(p) <= 3))
            /\ ~({"Strong financial health", "Weak financial health"}
                    \subseteq Texts(key_insights))

\* an analysis with a Piotroski score of 7 and an insight of every category
C18_Witness ==
    /\ ComprehensiveDone
    /\ financial_health.piotroski_score = Some(7)
    /\ Len(key_insights) = 4
    /\ key_insights[1].text = "Strong financial health"
    /\ key_insights[4].category = "risk"

----------------------------------------------------------------------------
(* Claims about the reasoning of a Recommendation, checked under SpecRec *)

\* the pillar a reasoning string speaks of: 1 fundamentals, 2 technicals,
\* 3 sentiment
ReasoningPillar(text) ==
    CASE text \in {"Strong fundamentals", "Weak fundamentals"} -> 1
      [] text \in {"Bullish technical trend", "Bearish technical trend"} -> 2
      [] text \in {"Positive market sentiment", "Negative market sentiment"} -> 3
      [] OTHER -> 0

\* C19: the reasoning holds at most one string per pillar in the order
\* fundamentals, technicals, sentiment; the fundamentals string is there iff
\* the fundamental score is >= 70 (strong) or <= 30 (weak), the technical
\* string iff the trend is of the bullish or the bearish family, the
\* sentiment string iff the sentiment score is >= 70 (positive) or <= 30
\* (negative)
C19_Reasoning ==
    Returned =>
        LET reasoning == recommendation.reasoning
            said == {reasoning[i] : i \in DOMAIN reasoning}
        IN  /\ \A i \in DOMAIN reasoning : ReasoningPillar(reasoning[i]) # 0
            /\ \A i, j \in DOMAIN reasoning :
                   i < j => ReasoningPillar(reasoning[i])
                            < ReasoningPillar(reasoning[j])
            /\ ("Strong fundamentals" \in said <=> fundamentals.score >= Pts(70))
            /\ ("Weak fundamentals" \in said <=> fundamentals.score <= Pts(30))
            /\ ("Bullish technical trend" \in said
                <=> technicals.trend \in {"BULLISH", "STRONG_BULLISH"})
            /\ ("Bearish technical trend" \in said
                <=> technicals.trend \in {"BEARISH", "STRONG_BEARISH"})
            /\ ("Positive market sentiment" \in said <=> sentiment.score >= Pts(70))
            /\ ("Negative market sentiment" \in said <=> sentiment.score <= Pts(30))

\* a recommendation with a string of every pillar
C19_Witness ==
    /\ Returned
    /\ recommendation.reasoning
           = <<"Strong fundamentals", "Bearish technical trend",
               "Negative market sentiment">>

\* C20: the confidence level is 0.7 plus 0.1 for each of the Piotroski
\* score, the Altman Z-score and the cash flow to earnings that is
\* available, capped at 0.95, and it lies in [0, 0.95]
C20_ConfidenceByAvailability ==
    ComprehensiveDone =>
        LET Available(x) == IF x # None THEN 1 ELSE 0
            available == Available(financial_health.piotroski_score)
                         + Available(financial_health.altman_z_score)
                         + Available(quality_metrics.cash_flow_to_earnings)
        IN  /\ confidence_level
                   = (IF 70 + 10 * available > 95 THEN 95 ELSE 70 + 10 * available)
            /\ confidence_level >= 0 /\ confidence_level <= 95

----------------------------------------------------------------------------
(* Claims about insufficient history, checked under SpecUnit *)

\* C22: with too short a price history the extractor returns without its
\* indicators: analyze_technicals with fewer than 50 observations returns
\* the default TechnicalMetrics (every indicator None, trend NEUTRAL),
\* _analyze_risk with fewer than 50 observations the default RiskMetrics,
\* and _analyze_momentum holds a long RSI only when the history has at least
\* 200 observations
C22_InsufficientHistory ==
    /\ (pc = "technicals" /\ call.hist.ok /\ call.hist.len < 50)
       => technicals = [rsi |-> None, macd |-> None, macd_signal |-> None,
                        sma_20 |-> None, sma_50 |-> None, sma_200 |-> None,
                        trend |-> "NEUTRAL", score |-> 0]
    /\ (pc = "risk" /\ call.hist.ok /\ call.hist.len < 50)
       => risk_metrics = [beta |-> None, sharpe_ratio |-> None,
                          max_drawdown |-> None, risk_score |-> 0]
    /\ (pc = "momentum" /\ call.hist.ok)
       => /\ (call.hist.len < 200
                 => momentum_metrics.relative_strength_index_long = None)
          /\ (call.hist.len >= 200
                 => momentum_metrics.relative_strength_index_long
                        = Some(call.hist.rsi_200))

\* a momentum analysis of 199 observations: momentum computed, no long RSI
C22_Witness ==
    /\ pc = "momentum"
    /\ call.hist.ok /\ call.hist.len = 199
    /\ momentum_metrics.price_momentum_1m # None
    /\ momentum_metrics.relative_strength_index_long = None

----------------------------------------------------------------------------
(* perform_comprehensive_analysis with its eight extractors, run on a       *)
(* symbol whose providers all answer, and run again after the provider of   *)
(* one category has started to raise.                                        *)

\* _analyze_options; src.chain is the nearest option chain: the put and call
\* volumes and the volume-weighted sum of the implied volatilities (in
\* hundredths), None when there are no expirations, a side is empty or the
\* inner block raises
analyze_options(src) ==
    IF ~src.ok THEN OptionsMetrics
    ELSE IF src.chain = None THEN OptionsMetrics
    ELSE LET c == Val(src.chain)
             total_volume == c.call_volume + c.put_volume
         IN  [put_call_ratio |-> IF c.call_volume > 0
                                 THEN Some((c.put_volume * 100) \div c.call_volume)
                                 ELSE None,
              implied_volatility |-> IF total_volume > 0
                                     THEN Some(c.iv_weighted \div total_volume)
                                     ELSE None,
              option_volume |-> Some(total_volume),
              score |-> 0]

\* _analyze_sector_context; src.market_correlation is the correlation with
\* SPY, None when the histories are short or the inner block raises
analyze_sector_context(src) ==
    IF ~src.ok THEN SectorMetrics
    ELSE [sector |-> src.sector, industry |-> src.industry,
          market_correlation |-> src.market_correlation, score |-> 0]

\* _estimate_interest_sensitivity, in hundredths
estimate_interest_sensitivity(sector) ==
    CASE sector = "Real Estate" -> 80
      [] sector = "Utilities" -> 70
      [] sector = "Financial Services" -> 60
      [] sector = "Consumer Cyclical" -> 40
      [] sector = "Technology" -> 20
      [] sector = "Healthcare" -> 10
      [] sector = "Consumer Defensive" -> 10
      [] OTHER -> 30

\* _estimate_inflation_impact
estimate_inflation_impact(sector) ==
    CASE sector \in {"Energy", "Materials"} -> "Positive"
      [] sector \in {"Real Estate", "Financial Services"} -> "Mixed"
      [] sector \in {"Consumer Defensive", "Technology", "Healthcare"} -> "Negative"
      [] OTHER -> "Neutral"

\* a slip: the failure path builds the record of an unknown sector
analyze_macro_context_unknown(src) ==
    [interest_rate_sensitivity |-> Some(estimate_interest_sensitivity(src.sector)),
     inflation_impact |-> Some(estimate_inflation_impact(src.sector)),
     economic_cycle_position |-> Some("Unknown"),
     score |-> 0]

\* _analyze_macro_context
analyze_macro_context(src) ==
    IF ~src.ok THEN MacroContextMetrics
    ELSE [interest_rate_sensitivity |->
              Some(estimate_interest_sensitivity(src.sector)),
          inflation_impact |-> Some(estimate_inflation_impact(src.sector)),
          economic_cycle_position |-> Some("Unknown"),
          score |-> 0]

\* the ComprehensiveAnalysis perform_comprehensive_analysis returns
ComprehensiveAnalysis(src, t) ==
    [scored |-> perform_comprehensive_analysis(src, t),
     context |-> [options_metrics |-> analyze_options(src.options),
                  sector_metrics |-> analyze_sector_context(src.sector),
                  macro_context |-> analyze_macro_context(src.macro)]]

\* the eight categories: the field of the provider answers each one reads
Categories ==
    {"options", "sector", "health", "momentum", "risk", "valuation", "quality",
     "macro"}

\* provider answers on which every extractor succeeds
FailureProviders ==
    {p \in [symbol : {"AAPL"},
            options : [ok : {TRUE},
                       chain : {None,
                                Some([put_volume |-> 80, call_volume |-> 100,
                                      iv_weighted |-> 5400])}],
            sector : [ok : {TRUE}, sector : {"Technology", ""},
                      industry : {"Consumer Electronics", ""},
                      market_correlation : Opt({85})],
            macro : [ok : {TRUE}, sector : {"Technology", ""}],
            health : {s \in HealthSources :
                         s.ok /\ s.piotroski_score \in {None, Some(7)}
                         /\ s.altman_z_score = Some(150)},
            momentum : {h \in MomentumHists :
                           h.ok /\ h.len \in {20, 60} /\ h.momentum_1m = 1500},
            risk : {h \in RiskHists :
                       h.ok /\ h.len = 300 /\ h.sharpe_ratio = Some(150)
                       /\ h.max_drawdown = -5000 /\ ~h.spy_ok},
            valuation : {i \in ValuationInfos :
                            i.currentPrice = Some(12000)
                            /\ i.dcf_estimate \in {None, Some(20000)}
                            /\ i.price_to_fcf = None},
            quality : {s \in QualitySources :
                          s.ok /\ s.cf_to_earnings = Some(150)
                          /\ s.returnOnAssets = None /\ s.debtToEquity = None}] :
        /\ p.macro.sector = p.sector.sector
        /\ (p.sector.sector = "" <=> p.sector.industry = "")}

\* the analysis returns out
ReturnComprehensive(out) ==
    /\ financial_health' = out.scored.financial_health
    /\ momentum_metrics' = out.scored.momentum_metrics
    /\ risk_metrics' = out.scored.risk_metrics
    /\ valuation_metrics' = out.scored.valuation_metrics
    /\ quality_metrics' = out.scored.quality_metrics
    /\ composite_score' = out.scored.composite_score
    /\ confidence_level' = out.scored.confidence_level
    /\ key_insights' = out.scored.key_insights
    /\ warnings' = out.scored.warnings
    /\ analysis_timestamp' = out.scored.analysis_timestamp
    /\ context_metrics' = out.context

InitFailure ==
    /\ pc = "baseline"
    /\ stock_data = NoStockData
    /\ fundamentals = FundamentalMetrics
    /\ technicals = TechnicalMetrics
    /\ sentiment = SentimentMetrics
    /\ recommendation = NoRecommendation
    /\ rec_locals = NoLocals
    /\ response = "none"
    /\ NoComprehensive
    /\ now = 3
    /\ providers \in FailureProviders
    /\ first = NoFirst
    /\ call = NoCall
    /\ rsi_result = NoRsi
    /\ NoAux

\* perform_comprehensive_analysis while every provider answers
BaselineAnalysis ==
    /\ pc = "baseline"
    /\ LET out == ComprehensiveAnalysis(providers, now)
       IN  /\ ReturnComprehensive(out)
           /\ first' = [response |-> "ok", result |-> out]
    /\ pc' = "fail"
    /\ UNCHANGED <<stock_data, fundamentals, technicals, sentiment,
                   recommendation, rec_locals, response>>
    /\ UNCHANGED <<now, providers, call, rsi_result>>
    /\ UNCHANGED <<concurrent_vars, cache_vars, config_vars, tui_vars,
                   terminal_vars>>

\* the provider of category starts to raise
ExtractionFails(category) ==
    /\ pc = "fail"
    /\ providers' = [providers EXCEPT ![category].ok = FALSE]
    /\ call' = [op |-> "extraction_fails", category |-> category]
    /\ pc' = "rerun"
    /\ UNCHANGED <<stock_data, fundamentals, technicals, sentiment,
                   recommendation, rec_locals, response, comprehensive_vars>>
    /\ UNCHANGED <<now, first, rsi_result>>
    /\ UNCHANGED aux_vars

\* perform_comprehensive_analysis with the failing provider
AnalysisWithFailure ==
    /\ pc = "rerun"
    /\ ReturnComprehensive(ComprehensiveAnalysis(providers, now))
    /\ pc' = "finished"
    /\ UNCHANGED <<stock_data, fundamentals, technicals, sentiment,
                   recommendation, rec_locals, response>>
    /\ UNCHANGED call_vars
    /\ UNCHANGED <<concurrent_vars, cache_vars, config_vars, tui_vars,
                   terminal_vars>>

NextFailure ==
    \/ BaselineAnalysis
    \/ \E category \in Categories : ExtractionFails(category)
    \/ AnalysisWithFailure

SpecFailure == InitFailure /\ [][NextFailure]_vars

\* the record of a category in the state, and its default
CategoryRecords ==
    [options |-> context_metrics.options_metrics,
     sector |-> context_metrics.sector_metrics,
     health |-> financial_health,
     momentum |-> momentum_metrics,
     risk |-> risk_metrics,
     valuation |-> valuation_metrics,
     quality |-> quality_metrics,
     macro |-> context_metrics.macro_context]

BaselineRecords ==
    [options |-> first.result.context.options_metrics,
     sector |-> first.result.context.sector_metrics,
     health |-> first.result.scored.financial_health,
     momentum |-> first.result.scored.momentum_metrics,
     risk |-> first.result.scored.risk_metrics,
     valuation |-> first.result.scored.valuation_metrics,
     quality |-> first.result.scored.quality_metrics,
     macro |-> first.result.context.macro_context]

DefaultRecords ==
    [options |-> OptionsMetrics,
     sector |-> SectorMetrics,
     health |-> FinancialHealthMetrics,
     momentum |-> MomentumMetrics,
     risk |-> RiskMetrics,
     valuation |-> ValuationMetrics,
     quality |-> QualityMetrics,
     macro |-> MacroContextMetrics]

\* the weight and the score of a category of the composite, the score as the
\* run without failure computed it
RemainingTerm(category, failed) ==
    LET b == BaselineRecords
        score == CASE category = "health" -> b.health.score
                   [] category = "valuation" -> b.valuation.valuation_score
                   [] category = "quality" -> b.quality.score
                   [] category = "momentum" -> b.momentum.score
                   [] category = "risk" -> b.risk.risk_score
        weight == CASE category = "health" -> 20
                    [] category = "valuation" -> 15
                    [] category = "quality" -> 10
                    [] category = "momentum" -> 10
                    [] category = "risk" -> 5
    IN  IF category # failed /\ score > 0 THEN <<score * weight, weight>>
        ELSE <<0, 0>>

RemainingAverage(failed) ==
    LET t(c) == RemainingTerm(c, failed)
        num == t("health")[1] + t("valuation")[1] + t("quality")[1]
               + t("momentum")[1] + t("risk")[1]
        den == t("health")[2] + t("valuation")[2] + t("quality")[2]
               + t("momentum")[2] + t("risk")[2]
    IN  IF den > 0 THEN [num |-> num, den |-> den]
        ELSE [num |-> CPts(50), den |-> 1]

\* C23: when the extraction of one category fails,
\* perform_comprehensive_analysis still returns its analysis; the record of
\* that category is its default, the record of every other category is the
\* one of the run without failure, and the composite score is the weighted
\* average of the remaining categories' scores over the sum of their weights
C23_OneCategoryFails ==
    pc = "finished" =>
        /\ analysis_timestamp = Some(now)
        /\ CategoryRecords[call.category] = DefaultRecords[call.category]
        /\ \A c \in Categories \ {call.category} :
               CategoryRecords[c] = BaselineRecords[c]
        /\ composite_score.num * RemainingAverage(call.category).den
           = RemainingAverage(call.category).num * composite_score.den

\* the health extraction failed on a symbol whose run without failure scored
\* the five categories: the composite moved with the renormalisation
C23_Witness ==
    /\ pc = "finished"
    /\ call.category = "health"
    /\ first.result.scored.financial_health.score > 0
    /\ first.result.scored.momentum_metrics.score > 0
    /\ financial_health = FinancialHealthMetrics
    /\ quality_metrics.score > 0
    /\ composite_score # first.result.scored.composite_score
    /\ composite_score.den = 40

----------------------------------------------------------------------------
(* CacheManager (src/cache_manager.py): one JSON file per (symbol,          *)
(* data_type) in the cache directory, and the @cached decorator.  The clock *)
(* advances in steps of a minute.                                            *)

\* the clock runs up to MaxMinutes minutes, and the cache is called at most
\* MaxCacheCalls times
MaxMinutes == 2
MaxCacheCalls == 3

\* one more cache operation
CacheCalled ==
    /\ cache_calls < MaxCacheCalls
    /\ cache_calls' = cache_calls + 1

\* self.default_duration and self.cache_durations, in seconds
default_duration == 300

cache_durations ==
    [stock_data |-> 60, fundamentals |-> 3600, technicals |-> 300,
     sentiment |-> 1800, info |-> 86400]

\* self.cache_durations.get(data_type, self.default_duration)
duration_of(data_type) ==
    IF data_type \in DOMAIN cache_durations THEN cache_durations[data_type]
    ELSE default_duration

\* the Python values handed to set: a dict of numbers, an instance of a
\* dataclass, and a dict with a tuple for a key
CacheData ==
    {[kind |-> "dict", v |-> 1], [kind |-> "dict", v |-> 2],
     [kind |-> "object", v |-> 1], [kind |-> "tuple_keyed", v |-> 1]}

\* json.dump(..., default=str) followed by json.load: a dict of numbers reads
\* back as it was, an object reads back as the string str() made of it
json_round_trip(data) ==
    IF data.kind = "object" THEN [kind |-> "str", v |-> data.v] ELSE data

\* json.dump raises TypeError on a key that is not a str, a number or None
json_dump_raises(data) == data.kind = "tuple_keyed"

\* CacheEntry.is_expired
is_expired(entry, t) == t > entry.expires_at

\* what set leaves in the file: the entry as json.load will read it, or the
\* text json.dump had written when it raised
written_by_set(symbol, data_type, data, t) ==
    IF json_dump_raises(data) THEN [kind |-> "partial"]
    ELSE [kind |-> "entry",
          data |-> json_round_trip(data),
          timestamp |-> t,
          expires_at |-> t + duration_of(data_type),
          symbol |-> symbol,
          data_type |-> data_type]

\* CacheManager.set: the directory after the call
set(dir, symbol, data_type, data, t) ==
    [dir EXCEPT ![get_cache_key(symbol, data_type)] =
                    written_by_set(symbol, data_type, data, t)]

\* CacheManager.get: what it returns and the directory after the call
get(dir, symbol, data_type, t) ==
    LET cache_key == get_cache_key(symbol, data_type)
        file == dir[cache_key]
        unlinked == [dir EXCEPT ![cache_key] = NoFile]
    IN  IF file = NoFile THEN [result |-> None, dir |-> dir]
        ELSE IF file.kind = "partial" THEN [result |-> None, dir |-> unlinked]
        ELSE IF is_expired(file, t) THEN [result |-> None, dir |-> unlinked]
        ELSE [result |-> Some(file.data), dir |-> dir]

\* CacheManager.invalidate: data_type is None when the argument is left out
invalidate(dir, symbol, data_type) ==
    IF data_type # None
    THEN [dir EXCEPT ![get_cache_key(symbol, Val(data_type))] = NoFile]
    ELSE [k \in CacheKeys |->
             IF \E t \in DOMAIN cache_durations : k = get_cache_key(symbol, t)
             THEN NoFile ELSE dir[k]]

\* CacheManager.clear_expired
clear_expired(dir, t) ==
    [k \in CacheKeys |->
        IF dir[k] = NoFile THEN NoFile
        ELSE IF dir[k].kind = "partial" THEN NoFile
        ELSE IF is_expired(dir[k], t) THEN NoFile
        ELSE dir[k]]

\* CacheManager.clear_all
clear_all(dir) == [k \in CacheKeys |-> NoFile]

InitCache ==
    /\ pc = "cache"
    /\ stock_data = NoStockData
    /\ fundamentals = FundamentalMetrics
    /\ technicals = TechnicalMetrics
    /\ sentiment = SentimentMetrics
    /\ recommendation = NoRecommendation
    /\ rec_locals = NoLocals
    /\ response = "none"
    /\ NoComprehensive
    /\ now = 0
    /\ providers = NoProviders
    /\ first = NoFirst
    /\ call = NoCall
    /\ rsi_result = NoRsi
    /\ NoAux

\* the variables the cache operations leave alone
cache_frame ==
    <<analysis_vars, concurrent_vars, context_metrics, config_vars, tui_vars,
      terminal_vars>>

CacheSet(symbol, data_type, data) ==
    /\ CacheCalled
    /\ cache_dir' = set(cache_dir, symbol, data_type, data, clock)
    /\ cache_call' = [op |-> "set", symbol |-> symbol, data_type |-> data_type]
    /\ last_set' = [last_set EXCEPT ![symbol][data_type] =
                       Some([data |-> data,
                             expires_at |-> clock + duration_of(data_type)])]
    /\ UNCHANGED clock
    /\ UNCHANGED cache_frame

CacheGet(symbol, data_type) ==
    /\ CacheCalled
    /\ LET got == get(cache_dir, symbol, data_type, clock)
       IN  /\ cache_dir' = got.dir
           /\ cache_call' = [op |-> "get", symbol |-> symbol,
                             data_type |-> data_type, result |-> got.result]
    /\ UNCHANGED <<clock, last_set>>
    /\ UNCHANGED cache_frame

CacheInvalidate(symbol, data_type) ==
    /\ CacheCalled
    /\ cache_dir' = invalidate(cache_dir, symbol, data_type)
    /\ cache_call' = [op |-> "invalidate", symbol |-> symbol,
                      data_type |-> data_type]
    /\ last_set' = [last_set EXCEPT ![symbol] =
                       [t \in CacheDataTypes |->
                           IF data_type \in {None, Some(t)} THEN None
                           ELSE last_set[symbol][t]]]
    /\ UNCHANGED clock
    /\ UNCHANGED cache_frame

CacheClearExpired ==
    /\ CacheCalled
    /\ cache_dir' = clear_expired(cache_dir, clock)
    /\ cache_call' = [op |-> "clear_expired"]
    /\ UNCHANGED <<clock, last_set>>
    /\ UNCHANGED cache_frame

CacheClearAll ==
    /\ CacheCalled
    /\ cache_dir' = clear_all(cache_dir)
    /\ cache_call' = [op |-> "clear_all"]
    /\ last_set' = [s \in CacheSymbols |-> [t \in CacheDataTypes |-> None]]
    /\ UNCHANGED clock
    /\ UNCHANGED cache_frame

\* a call of a method wrapped with @cached(data_type); result is what the
\* wrapped method returns when it is called
CachedCall(symbol, data_type, result) ==
    /\ CacheCalled
    /\ LET got == get(cache_dir, symbol, data_type, clock)
       IN  IF got.result # None
           THEN /\ cache_dir' = got.dir
                /\ cache_call' = [op |-> "cached", symbol |-> symbol,
                                  data_type |-> data_type, called |-> FALSE,
                                  result |-> got.result]
                /\ UNCHANGED last_set
           ELSE /\ cache_dir' = IF result # None
                                THEN set(got.dir, symbol, data_type, Val(result),
                                         clock)
                                ELSE got.dir
                /\ cache_call' = [op |-> "cached", symbol |-> symbol,
                                  data_type |-> data_type, called |-> TRUE,
                                  result |-> result]
                /\ last_set' = IF result # None
                               THEN [last_set EXCEPT ![symbol][data_type] =
                                        Some([data |-> Val(result),
                                              expires_at |->
                                                  clock + duration_of(data_type)])]
                               ELSE last_set
    /\ UNCHANGED clock
    /\ UNCHANGED cache_frame

\* a minute passes
TimePasses ==
    /\ clock + 60 <= MaxMinutes * 60
    /\ clock' = clock + 60
    /\ cache_call' = [op |-> "time"]
    /\ UNCHANGED <<cache_dir, cache_calls, last_set>>
    /\ UNCHANGED cache_frame

NextCache ==
    \/ \E s \in CacheSymbols, t \in CacheDataTypes, d \in CacheData :
           CacheSet(s, t, d)
    \/ \E s \in CacheSymbols, t \in CacheDataTypes : CacheGet(s, t)
    \/ \E s \in CacheSymbols, t \in Opt(CacheDataTypes) : CacheInvalidate(s, t)
    \/ CacheClearExpired
    \/ CacheClearAll
    \/ \E s \in CacheSymbols, t \in CacheDataTypes, r \in Opt(CacheData) :
           CachedCall(s, t, r)
    \/ TimePasses

SpecCache == InitCache /\ [][NextCache]_vars

\* what get is said to return for the key of the last call
ExpectedOfGet ==
    LET last == last_set[cache_call.symbol][cache_call.data_type]
    IN  IF last # None /\ ~(clock > Val(last).expires_at)
        THEN Some(Val(last).data) ELSE None

\* C24: get(symbol, data_type) returns the data of the most recent set for
\* that symbol and data type when that entry has not expired and no
\* invalidate or clear followed the set, and None otherwise; a get that
\* found an expired entry has removed it
C24_GetReturnsLastSet ==
    cache_call.op = "get" =>
        LET file == cache_dir[get_cache_key(cache_call.symbol,
                                            cache_call.data_type)]
        IN  /\ cache_call.result = ExpectedOfGet
            /\ (file # NoFile /\ file.kind = "entry" => ~(clock > file.expires_at))

\* C25: invalidate(symbol) without a data type leaves no entry of that symbol
\* under any data type (get returns None for each) and leaves the entries of
\* the other symbols as they were; invalidate(symbol, data_type) removes that
\* one entry and nothing else
C25_InvalidateRemoves ==
    [][cache_call'.op = "invalidate" =>
           LET symbol == cache_call'.symbol
           IN  IF cache_call'.data_type = None
               THEN /\ \A t \in CacheDataTypes :
                           get(cache_dir', symbol, t, clock').result = None
                    /\ \A s \in CacheSymbols \ {symbol}, t \in CacheDataTypes :
                           cache_dir'[get_cache_key(s, t)]
                           = cache_dir[get_cache_key(s, t)]
               ELSE cache_dir'
                    = [cache_dir EXCEPT
                          ![get_cache_key(symbol, Val(cache_call'.data_type))] =
                              NoFile]]_vars

\* C26: a call of a @cached method while the file of (symbol, data_type)
\* holds an entry that has not expired does not call the wrapped method and
\* returns the value the wrapped method returned (or set was given) when the
\* entry was filled; a None result leaves no entry
C26_CachedReturnsStored ==
    [][cache_call'.op = "cached" =>
           LET symbol == cache_call'.symbol
               data_type == cache_call'.data_type
               file == cache_dir[get_cache_key(symbol, data_type)]
               last == last_set[symbol][data_type]
           IN  /\ (file.kind = "entry" /\ ~(clock > file.expires_at)) =>
                      /\ ~cache_call'.called
                      /\ last # None
                      /\ cache_call'.result = Some(Val(last).data)
               /\ (cache_call'.called /\ cache_call'.result = None) =>
                      cache_dir'[get_cache_key(symbol, data_type)] = NoFile]_vars

----------------------------------------------------------------------------
(* ConfigManager.add_recent_analysis (src/config.py): the list of the       *)
(* recently analysed symbols, held in memory and saved to config.json.       *)

\* the number of calls of add_recent_analysis in one session
MaxAdds == 3

\* the length recent_analyses is cut to
recent_limit == 10

\* the symbols that are analysed
Tickers ==
    <<"AAPL", "MSFT", "GOOGL", "AMZN", "TSLA", "NVDA", "META", "NFLX", "AMD",
      "INTC", "IBM", "ORCL">>

\* the config.json an earlier session left: none, one that does not parse,
\* or one with the n symbols it analysed last
ConfigFiles ==
    {[kind |-> "missing"], [kind |-> "corrupt"]}
    \cup {[kind |-> "saved", recent_analyses |-> SubSeq(Tickers, 1, n)] :
             n \in 0..recent_limit}

\* list.remove(symbol): the list without the first occurrence of symbol
RECURSIVE list_remove(_, _)
list_remove(list, symbol) ==
    IF list = <<>> THEN <<>>
    ELSE IF Head(list) = symbol THEN Tail(list)
    ELSE <<Head(list)>> \o list_remove(Tail(list), symbol)

\* list[:n]
Take(list, n) == SubSeq(list, 1, Min(n, Len(list)))

\* ConfigManager.load_config: the recent_analyses of the configuration it
\* returns
load_config(cfg, file) ==
    IF cfg # None THEN Val(cfg)
    ELSE IF file.kind = "saved" THEN file.recent_analyses
    ELSE <<>>

\* a slip: the symbol is inserted without removing its earlier entry
recent_after_add_kept(recent, symbol) ==
    Take(<<symbol>> \o recent, recent_limit)

\* the recent_analyses add_recent_analysis leaves
recent_after_add(recent, symbol) ==
    Take(<<symbol>> \o (IF \E i \in 1..Len(recent) : recent[i] = symbol
                        THEN list_remove(recent, symbol) ELSE recent),
         recent_limit)

InitConfig ==
    /\ pc = "config"
    /\ stock_data = NoStockData
    /\ fundamentals = FundamentalMetrics
    /\ technicals = TechnicalMetrics
    /\ sentiment = SentimentMetrics
    /\ recommendation = NoRecommendation
    /\ rec_locals = NoLocals
    /\ response = "none"
    /\ NoComprehensive
    /\ now = 0
    /\ providers = NoProviders
    /\ first = NoFirst
    /\ call = NoCall
    /\ rsi_result = NoRsi
    /\ NoConcurrent
    /\ NoContext
    /\ NoCache
    /\ NoTui
    /\ NoTerminals
    /\ config = None
    /\ config_file \in ConfigFiles
    /\ added = IF config_file.kind = "saved" THEN config_file.recent_analyses
               ELSE <<>>

\* the calls of add_recent_analysis so far
AddsSoFar == IF call.op = "none" THEN 0 ELSE call.adds

\* add_recent_analysis(symbol); save_config writes config.json unless the
\* write raises (writable = FALSE), which it reports and swallows
AddRecentAnalysis(symbol, writable) ==
    /\ AddsSoFar < MaxAdds
    /\ LET recent == recent_after_add(load_config(config, config_file), symbol)
       IN  /\ config' = Some(recent)
           /\ config_file' = IF writable
                             THEN [kind |-> "saved", recent_analyses |-> recent]
                             ELSE config_file
    /\ added' = <<symbol>> \o list_remove(added, symbol)
    /\ call' = [op |-> "add_recent_analysis", symbol |-> symbol,
                adds |-> AddsSoFar + 1]
    /\ UNCHANGED <<pc, stock_data, fundamentals, technicals, sentiment,
                   recommendation, rec_locals, response, comprehensive_vars>>
    /\ UNCHANGED <<now, providers, first, rsi_result>>
    /\ UNCHANGED <<concurrent_vars, context_metrics, cache_vars, tui_vars,
                   terminal_vars>>

NextConfig ==
    \E i \in 1..Len(Tickers), writable \in BOOLEAN :
        AddRecentAnalysis(Tickers[i], writable)

SpecConfig == InitConfig /\ [][NextConfig]_vars

\* C27: after add_recent_analysis calls, recent_analyses has at most 10
\* entries, no symbol twice, the symbol added last first, and the symbols in
\* the order of their last addition
C27_RecentAnalyses ==
    call.op = "add_recent_analysis" =>
        LET recent == Val(config)
        IN  /\ Len(recent) <= 10
            /\ \A i, j \in 1..Len(recent) : recent[i] = recent[j] => i = j
            /\ recent[1] = call.symbol
            /\ recent = SubSeq(added, 1, Len(recent))
            /\ Len(recent) = 10 \/ Len(recent) = Len(added)

\* three symbols were added to a full list, the last of them one that was in
\* the list: the list is still full and has dropped the two oldest entries
C27_Witness ==
    /\ call.op = "add_recent_analysis"
    /\ call.adds = 3
    /\ call.symbol = "MSFT"
    /\ Len(Val(config)) = 10
    /\ Val(config)[2] = "ORCL"
    /\ Val(config)[3] = "IBM"
    /\ Len(added) = 12

----------------------------------------------------------------------------
\* the last call was an extractor whose rule table scored the record: the
\* provider answered and the extraction was not skipped
ScoreComputed ==
    CASE call.op = "analyze_fundamentals" -> call.info.ok
      [] call.op = "analyze_technicals" -> call.hist.ok /\ call.hist.len >= 50
      [] call.op = "_analyze_financial_health" -> call.src.ok
      [] call.op = "_analyze_momentum" -> call.hist.ok /\ call.hist.len >= 30
      [] call.op = "_analyze_risk" -> call.hist.ok /\ call.hist.len >= 50
      [] call.op = "_analyze_valuation" ->
             call.info.ok /\ call.info.currentPrice \notin {None, Some(0)}
      [] call.op = "_analyze_quality" -> call.src.ok
      [] OTHER -> FALSE

\* the record the last extractor call returned, its score and its default
ScoredRecord ==
    CASE call.op = "analyze_fundamentals" ->
             <<fundamentals, fundamentals.score, FundamentalMetrics>>
      [] call.op = "analyze_technicals" ->
             <<technicals, technicals.score, TechnicalMetrics>>
      [] call.op = "_analyze_financial_health" ->
             <<financial_health, financial_health.score, FinancialHealthMetrics>>
      [] call.op = "_analyze_momentum" ->
             <<momentum_metrics, momentum_metrics.score, MomentumMetrics>>
      [] call.op = "_analyze_risk" ->
             <<risk_metrics, risk_metrics.risk_score, RiskMetrics>>
      [] call.op = "_analyze_valuation" ->
             <<valuation_metrics, valuation_metrics.valuation_score,
               ValuationMetrics>>
      [] call.op = "_analyze_quality" ->
             <<quality_metrics, quality_metrics.score, QualityMetrics>>

ScoringCalls ==
    {"analyze_fundamentals", "analyze_technicals", "_analyze_financial_health",
     "_analyze_momentum", "_analyze_risk", "_analyze_valuation",
     "_analyze_quality"}

\* C28: a sub-score that a rule table computed is above 0, a sub-score of 0
\* belongs to the default record of a failed or skipped extraction, and the
\* composite counts the weight of every category whose record is not the
\* default
C28_ComputedScoresPositive ==
    /\ call.op \in ScoringCalls =>
           /\ ScoreComputed => ScoredRecord[2] > 0
           /\ ScoredRecord[2] = 0 => ~ScoreComputed /\ ScoredRecord[1] = ScoredRecord[3]
    /\ pc = "comprehensive" =>
           LET W(computed, weight) == IF computed THEN weight ELSE 0
               total == W(financial_health # FinancialHealthMetrics, 20)
                        + W(valuation_metrics # ValuationMetrics, 15)
                        + W(quality_metrics # QualityMetrics, 10)
                        + W(momentum_metrics # MomentumMetrics, 10)
                        + W(risk_metrics # RiskMetrics, 5)
           IN  composite_score.den = IF total = 0 THEN 1 ELSE total

\* the risk table at its lowest: a negative Sharpe ratio and a drawdown
\* beyond 40% leave 5 points
C28_Witness ==
    /\ call.op = "_analyze_risk"
    /\ ScoreComputed
    /\ risk_metrics.sharpe_ratio = Some(-50)
    /\ risk_metrics.max_drawdown = Some(-5000)
    /\ risk_metrics.risk_score = CPts(5)

----------------------------------------------------------------------------
(* FinancialAgentTUI (src/financial_agent_textual.py): the handlers of the  *)
(* user's actions, which run on the main thread, and the workers that run   *)
(* perform_analysis in a thread and hand display_results or handle_error    *)
(* back to the main thread with call_from_thread.                            *)

\* the number of workers one session starts
MaxWorkers == 2

\* what the user types into the ticker input
TickerTexts == {"", "AAPL", "MSFT"}

\* how perform_analysis ends: with every record, with a record missing
\* (get_stock_data returned None), or with an exception
AnalysisOutcomes == {"complete", "record_missing", "raises"}

\* the workers that have not returned from perform_analysis
Running == {w \in DOMAIN workers : workers[w].pc # "done"}

\* run_worker(self.perform_analysis, exclusive=True, thread=True): the
\* earlier workers are cancelled; Textual cannot stop a thread, so a cancelled
\* worker goes on unless it stops by itself (stops = TRUE)
run_worker(ws, stops) ==
    [w \in DOMAIN ws |->
        IF ws[w].pc = "done" THEN ws[w]
        ELSE [ws[w] EXCEPT !.cancelled = TRUE,
                           !.pc = IF stops /\ ws[w].pc = "running" THEN "done"
                                  ELSE ws[w].pc]]
    \o <<[pc |-> "running", cancelled |-> FALSE, outcome |-> "none"]>>

\* analyze_stock: the fields and the workers it leaves
analyze_stock(t, ws, stops) ==
    IF t.input = "" THEN [tui |-> t, workers |-> ws]
    ELSE IF t.is_analyzing THEN [tui |-> t, workers |-> ws]
    ELSE [tui |-> [t EXCEPT !.current_symbol = t.input, !.is_analyzing = TRUE,
                            !.analysis_complete = FALSE, !.input = ""],
          workers |-> run_worker(ws, stops)]

InitTui ==
    /\ pc = "tui"
    /\ stock_data = NoStockData
    /\ fundamentals = FundamentalMetrics
    /\ technicals = TechnicalMetrics
    /\ sentiment = SentimentMetrics
    /\ recommendation = NoRecommendation
    /\ rec_locals = NoLocals
    /\ response = "none"
    /\ NoComprehensive
    /\ now = 0
    /\ providers = NoProviders
    /\ first = NoFirst
    /\ call = NoCall
    /\ rsi_result = NoRsi
    /\ NoAux

\* the variables the app leaves alone
tui_frame ==
    <<analysis_vars, concurrent_vars, context_metrics, cache_vars, config_vars,
      terminal_vars>>

\* the user edits the ticker input
TypeTicker(text) ==
    /\ text # tui.input
    /\ tui' = [tui EXCEPT !.input = text]
    /\ UNCHANGED workers
    /\ UNCHANGED tui_frame

OnInputSubmitted(stops) ==
    /\ LET after == analyze_stock([tui EXCEPT !.analysis_mode = "standard"],
                                  workers, stops)
       IN  /\ Len(after.workers) <= MaxWorkers
           /\ tui' = after.tui
           /\ workers' = after.workers
    /\ UNCHANGED tui_frame

OnButtonPressed(button, stops) ==
    /\ LET mode == IF button = "standard-button" THEN "standard"
                   ELSE "comprehensive"
           after == analyze_stock([tui EXCEPT !.analysis_mode = mode], workers,
                                  stops)
       IN  /\ Len(after.workers) <= MaxWorkers
           /\ tui' = after.tui
           /\ workers' = after.workers
    /\ UNCHANGED tui_frame

ActionClear ==
    /\ tui' = [tui EXCEPT !.current_symbol = "", !.is_analyzing = FALSE,
                          !.analysis_complete = FALSE]
    /\ UNCHANGED workers
    /\ UNCHANGED tui_frame

ActionRefresh(stops) ==
    /\ tui.current_symbol # ""
    /\ ~tui.is_analyzing
    /\ LET after == analyze_stock(tui, workers, stops)
       IN  /\ Len(after.workers) <= MaxWorkers
           /\ tui' = after.tui
           /\ workers' = after.workers
    /\ UNCHANGED tui_frame

\* worker w comes to the end of perform_analysis and posts display_results,
\* or handle_error from its except, to the main thread
PerformAnalysis(w, outcome) ==
    /\ w \in DOMAIN workers
    /\ workers[w].pc = "running"
    /\ workers' = [workers EXCEPT ![w].pc = IF outcome = "raises" THEN "error"
                                             ELSE "display",
                                  ![w].outcome = outcome]
    /\ UNCHANGED tui
    /\ UNCHANGED tui_frame

\* the main thread runs the display_results worker w posted
DisplayResults(w) ==
    /\ w \in DOMAIN workers
    /\ workers[w].pc = "display"
    /\ tui' = IF workers[w].outcome = "record_missing" THEN tui
              ELSE [tui EXCEPT !.is_analyzing = FALSE,
                               !.analysis_complete = TRUE]
    /\ workers' = [workers EXCEPT ![w].pc = "done"]
    /\ UNCHANGED tui_frame

\* the main thread runs the handle_error worker w posted
HandleError(w) ==
    /\ w \in DOMAIN workers
    /\ workers[w].pc = "error"
    /\ tui' = [tui EXCEPT !.is_analyzing = FALSE]
    /\ workers' = [workers EXCEPT ![w].pc = "done"]
    /\ UNCHANGED tui_frame

NextTui ==
    \/ \E text \in TickerTexts : TypeTicker(text)
    \/ \E stops \in BOOLEAN : OnInputSubmitted(stops)
    \/ \E button \in {"standard-button", "comprehensive-button"},
          stops \in BOOLEAN : OnButtonPressed(button, stops)
    \/ ActionClear
    \/ \E stops \in BOOLEAN : ActionRefresh(stops)
    \/ \E w \in 1..MaxWorkers, outcome \in AnalysisOutcomes :
           PerformAnalysis(w, outcome)
    \/ \E w \in 1..MaxWorkers : DisplayResults(w)
    \/ \E w \in 1..MaxWorkers : HandleError(w)

SpecTui == InitTui /\ [][NextTui]_vars

\* C29: at most one worker runs perform_analysis at any time, is_analyzing is
\* true from the start of a worker until its display_results or handle_error
\* has run, and no worker is started while is_analyzing is true
C29_OneWorker ==
    /\ [](/\ Cardinality(Running) <= 1
          /\ (Running # {} => tui.is_analyzing))
    /\ [][Len(workers') > Len(workers) => ~tui.is_analyzing]_vars

----------------------------------------------------------------------------
(* The web terminal (src/web_terminal.py): websocket_endpoint per           *)
(* connection, the registry terminals, and one read_terminal_output task    *)
(* per terminal.  The handlers run on one event loop: a step is the code    *)
(* between two awaits.                                                       *)

\* the connections accepted and the terminals started in one run
MaxConnections == 2
MaxTerminals == 3

\* cleanup_terminal: the registry it leaves (the kill and the close swallow
\* their exceptions)
cleanup_terminal(terms, terminal_id) ==
    IF terminal_id \in DOMAIN terms
    THEN [i \in DOMAIN terms \ {terminal_id} |-> terms[i]]
    ELSE terms

\* the tasks after cleanup_terminal(terminal_id): an entry that was removed
\* is counted
cleaned(ts, terms, terminal_id) ==
    IF terminal_id \in DOMAIN terms
    THEN [ts EXCEPT ![terminal_id].removed = @ + 1]
    ELSE ts

InitTerminal ==
    /\ pc = "web_terminal"
    /\ stock_data = NoStockData
    /\ fundamentals = FundamentalMetrics
    /\ technicals = TechnicalMetrics
    /\ sentiment = SentimentMetrics
    /\ recommendation = NoRecommendation
    /\ rec_locals = NoLocals
    /\ response = "none"
    /\ NoComprehensive
    /\ now = 0
    /\ providers = NoProviders
    /\ first = NoFirst
    /\ call = NoCall
    /\ rsi_result = NoRsi
    /\ NoAux

\* the variables the web terminal leaves alone
terminal_frame ==
    <<analysis_vars, concurrent_vars, context_metrics, cache_vars, config_vars,
      tui_vars>>

\* websocket_endpoint accepts a connection
Accept ==
    /\ Len(sockets) < MaxConnections
    /\ sockets' = Append(sockets, [pc |-> "open", terminal_id |-> None])
    /\ UNCHANGED <<terminals, tasks>>
    /\ UNCHANGED terminal_frame

\* a "start" message on connection c: start_terminal registers a terminal
\* under a fresh uuid and starts its reader, or returns None when the pty or
\* the process cannot be started (started = FALSE)
ReceiveStart(c, started) ==
    /\ c \in DOMAIN sockets
    /\ sockets[c].pc = "open"
    /\ IF started
       THEN /\ Len(tasks) < MaxTerminals
            /\ LET terminal_id == Len(tasks) + 1
               IN  /\ terminals' = [i \in DOMAIN terminals \cup {terminal_id} |->
                                       IF i = terminal_id
                                       THEN [websocket |-> c, written |-> FALSE,
                                             rows |-> 30]
                                       ELSE terminals[i]]
                   /\ tasks' = Append(tasks, [pc |-> "reading", websocket |-> c,
                                              removed |-> 0])
                   /\ sockets' = [sockets EXCEPT ![c].terminal_id =
                                                     Some(terminal_id)]
       ELSE /\ sockets' = [sockets EXCEPT ![c].terminal_id = None]
            /\ UNCHANGED <<terminals, tasks>>
    /\ UNCHANGED terminal_frame

\* an "input" message: written to the master of the connection's terminal
ReceiveInput(c) ==
    /\ c \in DOMAIN sockets
    /\ sockets[c].pc = "open"
    /\ terminals' = IF sockets[c].terminal_id # None
                       /\ Val(sockets[c].terminal_id) \in DOMAIN terminals
                    THEN [terminals EXCEPT
                             ![Val(sockets[c].terminal_id)].written = TRUE]
                    ELSE terminals
    /\ UNCHANGED <<sockets, tasks>>
    /\ UNCHANGED terminal_frame

\* a "resize" message
ReceiveResize(c, rows) ==
    /\ c \in DOMAIN sockets
    /\ sockets[c].pc = "open"
    /\ terminals' = IF sockets[c].terminal_id # None
                       /\ Val(sockets[c].terminal_id) \in DOMAIN terminals
                    THEN [terminals EXCEPT
                             ![Val(sockets[c].terminal_id)].rows = rows]
                    ELSE terminals
    /\ UNCHANGED <<sockets, tasks>>
    /\ UNCHANGED terminal_frame

\* receive_json raises WebSocketDisconnect: the finally of websocket_endpoint
Disconnect(c) ==
    /\ c \in DOMAIN sockets
    /\ sockets[c].pc = "open"
    /\ LET terminal_id == sockets[c].terminal_id
       IN  IF terminal_id # None /\ Val(terminal_id) \in DOMAIN terminals
           THEN /\ terminals' = cleanup_terminal(terminals, Val(terminal_id))
                /\ tasks' = cleaned(tasks, terminals, Val(terminal_id))
           ELSE UNCHANGED <<terminals, tasks>>
    /\ sockets' = [sockets EXCEPT ![c].pc = "finished"]
    /\ UNCHANGED terminal_frame

\* one turn of the loop of read_terminal_output for terminal_id: the entry
\* is gone, the process has output to send, or the process has exited
ReadTerminalOutput(terminal_id, event) ==
    /\ terminal_id \in DOMAIN tasks
    /\ tasks[terminal_id].pc = "reading"
    /\ IF terminal_id \notin DOMAIN terminals
       THEN /\ tasks' = [tasks EXCEPT ![terminal_id].pc = "done"]
            /\ UNCHANGED terminals
       ELSE IF event = "output"
               /\ sockets[terminals[terminal_id].websocket].pc = "open"
       THEN UNCHANGED <<terminals, tasks>>
       ELSE /\ terminals' = cleanup_terminal(terminals, terminal_id)
            /\ tasks' = [cleaned(tasks, terminals, terminal_id)
                            EXCEPT ![terminal_id].pc = "done"]
    /\ UNCHANGED sockets
    /\ UNCHANGED terminal_frame

NextTerminal ==
    \/ Accept
    \/ \E c \in 1..MaxConnections, started \in BOOLEAN : ReceiveStart(c, started)
    \/ \E c \in 1..MaxConnections : ReceiveInput(c)
    \/ \E c \in 1..MaxConnections, rows \in {24, 30} : ReceiveResize(c, rows)
    \/ \E c \in 1..MaxConnections : Disconnect(c)
    \/ \E terminal_id \in 1..MaxTerminals, event \in {"output", "exit"} :
           ReadTerminalOutput(terminal_id, event)

SpecTerminal == InitTerminal /\ [][NextTerminal]_vars

\* C30: once websocket_endpoint has finished for a connection the registry
\* holds no terminal started on that connection, and the entry of a terminal
\* is removed at most once however often cleanup_terminal is called for it
C30_NoEntryAfterDisconnect ==
    /\ \A c \in DOMAIN sockets :
           sockets[c].pc = "finished" =>
               \A terminal_id \in DOMAIN terminals :
                   terminals[terminal_id].websocket # c
    /\ \A terminal_id \in DOMAIN tasks : tasks[terminal_id].removed <= 1

====
